---- MODULE Spec2Model ----
(***************************************************************************)
(* AquaCam streamer (server_pi): the pipeline supervisor (RtmpPusher /     *)
(* RtpPusher), the retry watchdog (RetryWatchdog), the orchestrator        *)
(* (StreamerApp), the health state (HealthStatus), the logger (JsonLogger) *)
(* and the OS processes they launch.                                       *)
(*                                                                         *)
(* The specifications:                                                     *)
(*   Spec        - StreamerApp.run: watchdog.run(run_stream_task) plus the *)
(*                 SIGINT/SIGTERM handler (shutdown).                      *)
(*   FairSpec    - Spec with a controlling thread that keeps running.      *)
(*   SpecSup     - one supervisor instance under a sequential caller that  *)
(*                 issues start / monitor / stop.                          *)
(*   FairSpecSup - SpecSup with supervisor calls that keep running.        *)
(*   SpecFault   - SpecSup in an environment where delivering the graceful *)
(*                 termination request (os.kill) may raise OSError.        *)
(*   SpecDelay   - RetryWatchdog.get_next_delay on drawn schedules.        *)
(*   SpecRetry   - RetryWatchdog.run on a scripted task.                   *)
(*   SpecHealthSeq, SpecHealth - HealthStatus updated and read by one      *)
(*                 thread, and read by the health thread while updated.    *)
(*   SpecLog     - JsonLogger.log under one caller, on drawn settings.     *)
(*   SpecReader  - the stderr reader thread of RtpPusher.                  *)
(*   SpecPipe    - SpecSup with the stderr pipes of the processes filling  *)
(*                 and being drained.                                      *)
(*   SpecStderr, FairSpecStderr - RtpPusher (single stage) with the stderr *)
(*                 reader thread it starts.                                *)
(*   SpecLogShared - JsonLogger.log called by two threads, step by step.   *)
(*   SpecSinkFault - Spec with a log file whose write can fail.            *)
(*   SpecAnyState - SpecSup with a caller that calls monitor() in any      *)
(*                 state of the supervisor.                                *)
(*   SpecOnce    - StreamerApp.run with the watchdog disabled.             *)
(*   SpecShutdown - Spec (RtpPusher, single stage) with the stderr reader  *)
(*                 thread, its log calls as steps of their own.            *)
(* Times are integers: schedule entries in milliseconds, jitter in         *)
(* per-mille, delays in microseconds (ms * per-mille), so that the         *)
(* arithmetic of get_next_delay is exact.                                  *)
(***************************************************************************)
EXTENDS Integers, Sequences, FiniteSets, TLC

\* ------------------------------------------------------------- bounds
\* start() calls in one behaviour (caps the retry loop and the caller).
MaxStarts == 2
\* Calls the sequential caller of SpecSup issues.
MaxCalls == 4
\* Longest backoff schedule drawn in SpecDelay.
MaxSchedLen == 2
\* Largest attempt index drawn in SpecDelay.
MaxAttemptIdx == 3
\* Calls of the scripted task in SpecRetry.
MaxTaskCalls == 3
\* Health requests answered in SpecHealth and SpecHealthSeq.
MaxRequests == 2
\* Calls of log() in SpecLog.
MaxLogCalls == 3
\* Lines the stderr reader reads in SpecReader.
MaxLines == 2
\* The buffer of a pipe, in chunks of diagnostic output.
PipeCapacity == 1
\* The writes to the log file that fail in a run.
MaxSinkFailures == 1

\* -------------------------------------------------- program constants
\* wait(timeout=5): the grace period of stop(), in seconds.
GraceSeconds == 5
\* random.uniform(-0.1, 0.1), in per-mille.
JitterPermille == 100
\* max(0.1, delay): 0.1 s in microseconds.
MinDelayMicros == 100000
\* line_str[:500]: the longest message logged for a stderr line.
MessageLimit == 500
\* stderr_output[:2000]: the longest stderr excerpt of a drop entry.
ExcerptLimit == 2000

VARIABLES
    driver,            \* what drives the run: "app", "client", "delay", ...
    variant,           \* "rtmp" | "rtp": StreamerApp.streaming_mode
    twoStage,          \* pusher_cmd is not None (CSI camera)
    procs,             \* OS processes ever launched; the pid is the index
    capture_process,   \* self.capture_process: a pid, 0 for None
    pusher_process,    \* self.pusher_process: a pid, 0 for None
    monitor_running,   \* RtpPusher.monitor_running
    pc,                \* position of the controlling thread
    exc,               \* the exception in flight (kind "none": none)
    lifecycle,         \* Idle | Starting | Running | Stopping | Failed
    starts,            \* start() calls so far
    calls,             \* calls the sequential caller has issued
    stage,             \* index into StopOrder of the stage stop() handles
    waited,            \* seconds the current wait(timeout=5) has waited
    stopTrace,         \* what the current stop() call did, in order
    stopsDone,         \* stop() calls completed since the last start()
    log,               \* events written through JsonLogger.log, in order
    backoff_schedule,  \* RetryWatchdog.backoff_schedule (milliseconds)
    attempt,           \* RetryWatchdog.attempt
    delay,             \* the local delay of RetryWatchdog.run (microseconds)
    camera_present,    \* HealthStatus.camera_present
    publish_status,    \* HealthStatus.publish_status
    signalled,         \* a termination signal has been delivered
    exit_code,         \* the process exit code, -1 while running
    wd_ctx,            \* what RetryWatchdog.run logged and slept last
    outcomes,          \* outcomes of the calls of a scripted task, in order
    hreq,              \* the health thread inside HealthStatus.to_dict
    logger,            \* the JsonLogger: its settings, files and mirror
    rd,                \* the stderr reader thread of RtpPusher
    evt_ctx,           \* context of the latest entry start() / monitor() logged
    interrupted        \* where the signal handler interrupted the thread

vars == <<driver, variant, twoStage, procs, capture_process, pusher_process,
          monitor_running, pc, exc, lifecycle, starts, calls, stage, waited,
          stopTrace, stopsDone, log, backoff_schedule, attempt, delay,
          camera_present, publish_status, signalled, exit_code, wd_ctx,
          outcomes, hreq, logger, rd, evt_ctx, interrupted>>

supVars == <<procs, capture_process, pusher_process, monitor_running, exc,
             lifecycle, starts, stage, waited, stopTrace, stopsDone, log>>
appVars == <<attempt, delay, camera_present, publish_status, signalled, exit_code>>
cfgVars == <<driver, variant, twoStage, backoff_schedule>>
auxVars == <<hreq, logger, rd>>
retryVars == <<wd_ctx, outcomes>>
obsVars == <<evt_ctx, interrupted>>

\* ------------------------------------------------------------ helpers
\* The context of a log entry of start() / monitor(): the event, the process
\* identifiers, the exit code, and the stderr excerpt with the bytes read
\* for it (-1: the entry has no such field).
NoEvt == [evt |-> "none", pid_capture |-> 0, pid_pusher |-> 0, returncode |-> 0,
          stderr |-> 0 - 1, read |-> 0 - 1]
NoExc == [kind |-> "none", code |-> 0]
LaunchError == [kind |-> "LaunchError", code |-> 0]
OsError == [kind |-> "OSError", code |-> 0]

\* Exit codes a stage exits with on its own.
ExitCodes == {0, 1}
\* Popen.returncode of a process ended by SIGTERM / SIGKILL.
SigTermCode == 0 - 15
SigKillCode == 0 - 9
SigPipeCode == 0 - 13

Pids == 1..Len(procs)
Alive(p) == p # 0 /\ procs[p].alive
Running == {p \in Pids : procs[p].alive}

\* subprocess.Popen(cmd, ...): a new running process, launched by the
\* current start() call. Its stderr is a pipe (stderr=subprocess.PIPE); no
\* thread reads it yet. stdout_readers: who holds the read end of its stdout
\* pipe, 0 for the supervisor (stdout=subprocess.PIPE); the terminal stage
\* of a two-stage pipeline has stdout=subprocess.DEVNULL. pending: how much
\* of the buffer of its stderr pipe is filled.
NewProc(role) == [role |-> role, alive |-> TRUE, code |-> 0, termed |-> FALSE,
                  by |-> starts, stderr |-> "pipe", readers |-> 0, pending |-> 0,
                  stdout_readers |-> IF role = "pusher" /\ twoStage THEN {} ELSE {0}]

\* ------------------------------------------------------- OS processes
\* A running process exits on its own (end of input, SIGPIPE, a crash), or,
\* once a termination request has been delivered to it, because of it.
ProcExit(p) ==
    /\ pc \notin {"exited", "crashed"}
    /\ procs[p].alive
    /\ \E c \in (IF procs[p].termed THEN {SigTermCode} ELSE ExitCodes) :
          procs' = [procs EXCEPT ![p].alive = FALSE, ![p].code = c]
    /\ UNCHANGED <<capture_process, pusher_process, monitor_running, pc, exc,
                   lifecycle, starts, calls, stage, waited, stopTrace, stopsDone,
                   log, appVars, cfgVars, auxVars, retryVars, obsVars>>

\* --------------------------------------------- supervisor: start()
\* Entry of start(): get_pipeline_commands(), then the try block.
StartBegin ==
    /\ pc = "s_begin"
    /\ lifecycle' = "Starting"
    /\ starts' = starts + 1
    /\ stopsDone' = 0
    /\ pc' = IF twoStage THEN "s_capture" ELSE "s_single"
    /\ UNCHANGED <<procs, capture_process, pusher_process, monitor_running, exc,
                   calls, stage, waited, stopTrace, log, appVars, cfgVars, auxVars, retryVars, obsVars>>

\* CSI mode: log capture_start, then Popen(capture_cmd), which may raise.
StartLaunchCapture ==
    /\ pc = "s_capture"
    /\ log' = log \o <<"capture_start">>
    /\ evt_ctx' = [NoEvt EXCEPT !.evt = "capture_start"]
    /\ \E ok \in BOOLEAN :
          IF ok
          THEN /\ procs' = Append(procs, NewProc("capture"))
               /\ capture_process' = Len(procs) + 1
               /\ exc' = exc
               /\ pc' = "s_pusher"
          ELSE /\ exc' = OsError
               /\ pc' = "s_except"
               /\ UNCHANGED <<procs, capture_process>>
    /\ UNCHANGED <<pusher_process, monitor_running, lifecycle, starts, calls,
                   stage, waited, stopTrace, stopsDone, appVars, cfgVars, auxVars, retryVars, interrupted>>

\* RtpPusher._start_stderr_monitor sets the flag; RtmpPusher has none.
StartStderrMonitor == IF variant = "rtp" THEN TRUE ELSE monitor_running
StderrMonitorEvents == IF variant = "rtp" THEN <<"stderr_monitor_started">> ELSE <<>>
\* The reader threads _start_stderr_monitor starts on the terminal stage.
StderrReaders == IF variant = "rtp" THEN 1 ELSE 0

\* CloseOwnReference leaving the supervisor's reference open (a faulty
\* variant).
KeepOwnReference(holders) == holders

\* self.capture_process.stdout.close(): the supervisor gives up its read end.
CloseOwnReference(holders) == holders \ {0}

\* Popen(pusher_cmd, stdin=self.capture_process.stdout) hands the read end of
\* the capture stage's stdout to the new process; the supervisor then closes
\* its own reference.
WireStdin(ps, pusher) ==
    IF twoStage
    THEN [ps EXCEPT ![capture_process].stdout_readers = CloseOwnReference(@ \cup {pusher})]
    ELSE ps

\* The context of publish_ok: pid_capture and pid_pusher, or pid alone.
PublishCtx(pusher) ==
    [NoEvt EXCEPT !.evt = "publish_ok", !.pid_pusher = pusher,
                  !.pid_capture = IF twoStage THEN capture_process ELSE 0]

\* FailedLaunchEvents reporting success all the same (a faulty variant).
PublishDespiteFailure(startEvt) == <<startEvt, "publish_ok">>

\* What start() has logged for the terminal stage when its Popen raises.
FailedLaunchEvents(startEvt) == <<startEvt>>

\* The launch of the terminal stage: log startEvt, Popen, then (on success)
\* publish_ok and the stderr monitor; a failed Popen enters the except block.
LaunchTerminal(startEvt) ==
    \E ok \in BOOLEAN :
      IF ok
      THEN /\ procs' = WireStdin(Append(procs, [NewProc("pusher") EXCEPT
                                                  !.readers = StderrReaders]),
                                 Len(procs) + 1)
           /\ pusher_process' = Len(procs) + 1
           /\ monitor_running' = StartStderrMonitor
           /\ log' = log \o <<startEvt, "publish_ok">> \o StderrMonitorEvents
           /\ evt_ctx' = PublishCtx(Len(procs) + 1)
           /\ lifecycle' = "Running"
           /\ exc' = exc
           /\ pc' = "s_ret"
      ELSE /\ log' = log \o FailedLaunchEvents(startEvt)
           /\ evt_ctx' = [NoEvt EXCEPT !.evt = startEvt]
           /\ exc' = OsError
           /\ pc' = "s_except"
           /\ UNCHANGED <<procs, pusher_process, monitor_running, lifecycle>>

\* CSI mode, second stage: Popen(pusher_cmd, stdin=capture_process.stdout).
StartLaunchPusher ==
    /\ pc = "s_pusher"
    /\ LaunchTerminal("pusher_start")
    /\ UNCHANGED <<capture_process, starts, calls, stage, waited, stopTrace,
                   stopsDone, appVars, cfgVars, auxVars, retryVars, interrupted>>

\* USB mode: the single FFmpeg process is the terminal stage.
StartLaunchSingle ==
    /\ pc = "s_single"
    /\ LaunchTerminal("stream_start")
    /\ UNCHANGED <<capture_process, starts, calls, stage, waited, stopTrace,
                   stopsDone, appVars, cfgVars, auxVars, retryVars, interrupted>>

\* except Exception: log start_failed, raise RuntimeError. Nothing else.
StartExcept ==
    /\ pc = "s_except"
    /\ log' = log \o <<"start_failed">>
    /\ evt_ctx' = [NoEvt EXCEPT !.evt = "start_failed"]
    /\ exc' = LaunchError
    /\ lifecycle' = "Failed"
    /\ pc' = "s_raise"
    /\ UNCHANGED <<procs, capture_process, pusher_process, monitor_running,
                   starts, calls, stage, waited, stopTrace, stopsDone, appVars,
                   cfgVars, auxVars, retryVars, interrupted>>

\* -------------------------------------------- supervisor: monitor()
\* MonitorOutcome with a success state: a clean zero exit ends monitor()
\* normally (a faulty variant).
MonitorOutcomeZeroSuccess(returncode) ==
    IF returncode = 0 THEN NoExc ELSE [kind |-> "StreamDropError", code |-> returncode]

\* raise RuntimeError(f"... exited with code {returncode}"): for every code.
MonitorOutcome(returncode) == [kind |-> "StreamDropError", code |-> returncode]

DropEvent == IF variant = "rtp" THEN "stream_drop" ELSE "publish_drop"

\* What the terminal stage can have left unread in its stderr pipe (bytes).
StderrLeft == {0, 100, 2500}

\* The context of the drop entry. RtmpPusher: stderr.read() takes all that is
\* left, the entry carries stderr_output[:2000] (length 0: the placeholder
\* text). RtpPusher: the entry carries the exit code only.
DropCtx(returncode, left) ==
    IF variant = "rtmp"
    THEN [NoEvt EXCEPT !.evt = DropEvent, !.returncode = returncode, !.read = left,
                       !.stderr = IF left < ExcerptLimit THEN left ELSE ExcerptLimit]
    ELSE [NoEvt EXCEPT !.evt = DropEvent, !.returncode = returncode]

\* if self.pusher_process: ... ; otherwise monitor() falls through.
MonitorBegin ==
    /\ pc = "m_begin"
    /\ pc' = IF pusher_process # 0 THEN "m_wait" ELSE "m_ret"
    /\ UNCHANGED <<supVars, calls, appVars, cfgVars, auxVars, retryVars, obsVars>>

\* pusher_process.wait() returns once the terminal stage has exited; the drop
\* is logged and raised inside the try block. RtmpPusher first reads the
\* stage's stderr, inside try / bare except (m_read).
MonitorWait ==
    /\ pc \in {"m_wait", "m_read"}
    /\ ~procs[pusher_process].alive
    /\ IF variant = "rtmp" /\ pc = "m_wait"
       THEN /\ pc' = "m_read"
            /\ UNCHANGED <<exc, monitor_running, log, evt_ctx>>
       ELSE /\ LET o == MonitorOutcome(procs[pusher_process].code) IN
                 /\ exc' = o
                 /\ pc' = IF o.kind = "none" THEN "m_ret" ELSE "m_except"
            /\ monitor_running' = FALSE
            /\ log' = log \o <<DropEvent>>
            /\ \E left \in StderrLeft :
                 evt_ctx' = DropCtx(procs[pusher_process].code, left)
    /\ UNCHANGED <<procs, capture_process, pusher_process, lifecycle, starts,
                   calls, stage, waited, stopTrace, stopsDone, appVars, cfgVars, auxVars, retryVars, interrupted>>

\* except Exception: log monitor_error, re-raise.
MonitorExcept ==
    /\ pc = "m_except"
    /\ monitor_running' = FALSE
    /\ log' = log \o <<"monitor_error">>
    /\ evt_ctx' = [NoEvt EXCEPT !.evt = "monitor_error"]
    /\ lifecycle' = "Failed"
    /\ pc' = "m_raise"
    /\ UNCHANGED <<procs, capture_process, pusher_process, exc, starts, calls,
                   stage, waited, stopTrace, stopsDone, appVars, cfgVars, auxVars, retryVars, interrupted>>

\* ----------------------------------------------- supervisor: stop()
\* StopOrder in launch order, the upstream stage first (a faulty variant).
StopOrderUpstreamFirst == <<"capture", "pusher">>

\* The order in which stop() handles the stages.
StopOrder == <<"pusher", "capture">>

\* Handle in a stop() that never looks at the capture process (a faulty
\* variant).
HandleSkipsCapture(name) == IF name = "pusher" THEN pusher_process ELSE 0

\* self.pusher_process / self.capture_process, as stop() reads them.
Handle(name) == IF name = "pusher" THEN pusher_process ELSE capture_process

\* Where stop() goes after the stage it handles.
StopAdvance ==
    IF stage < Len(StopOrder)
    THEN /\ stage' = stage + 1 /\ pc' = "st_check"
    ELSE /\ stage' = stage /\ pc' = "st_end"

\* Entry of stop(): RtpPusher clears monitor_running.
StopBegin ==
    /\ pc = "st_begin"
    /\ monitor_running' = FALSE
    /\ lifecycle' = "Stopping"
    /\ stage' = 1
    /\ waited' = 0
    /\ stopTrace' = <<>>
    /\ pc' = "st_check"
    /\ UNCHANGED <<procs, capture_process, pusher_process, exc, starts, calls,
                   stopsDone, log, appVars, cfgVars, auxVars, retryVars, obsVars>>

\* Popen.terminate(): SIGTERM to a process that has not exited, nothing
\* for one that has.
Terminate(p) ==
    IF procs[p].alive THEN [procs EXCEPT ![p].termed = TRUE] ELSE procs

\* if self.<stage>_process: log stopping, terminate(), then wait(timeout=5).
StopStage ==
    /\ pc = "st_check"
    /\ LET h == Handle(StopOrder[stage]) IN
         IF h = 0
         THEN /\ StopAdvance
              /\ UNCHANGED <<procs, waited, stopTrace, log>>
         ELSE /\ log' = log \o <<"stopping">>
              /\ procs' = Terminate(h)
              /\ stopTrace' = Append(stopTrace, <<StopOrder[stage], "terminate", 0>>)
              /\ waited' = 0
              /\ stage' = stage
              /\ pc' = "st_wait"
    /\ UNCHANGED <<capture_process, pusher_process, monitor_running, exc,
                   lifecycle, starts, calls, stopsDone, appVars, cfgVars, auxVars, retryVars, obsVars>>

\* Escalate with the timeout swallowed and no kill (a faulty variant).
EscalateNoKill(p) == procs

\* except subprocess.TimeoutExpired: <stage>_process.kill().
Escalate(p) == [procs EXCEPT ![p].alive = FALSE, ![p].code = SigKillCode]

\* wait(timeout=5): returns when the process has exited; otherwise a second
\* passes, and after the grace period TimeoutExpired is raised and caught.
StopWait ==
    /\ pc = "st_wait"
    /\ LET h == Handle(StopOrder[stage]) IN
         IF ~procs[h].alive
         THEN /\ StopAdvance
              /\ stopTrace' = Append(stopTrace, <<StopOrder[stage], "exited", waited>>)
              /\ UNCHANGED <<procs, waited>>
         ELSE IF waited < GraceSeconds
         THEN /\ waited' = waited + 1
              /\ UNCHANGED <<procs, stage, pc, stopTrace>>
         ELSE /\ procs' = Escalate(h)
              /\ stopTrace' = Append(stopTrace, <<StopOrder[stage], "kill", waited>>)
              /\ StopAdvance
              /\ UNCHANGED waited
    /\ UNCHANGED <<capture_process, pusher_process, monitor_running, exc,
                   lifecycle, starts, calls, stopsDone, log, appVars, cfgVars, auxVars, retryVars, obsVars>>

\* log stopped, return.
StopEnd ==
    /\ pc = "st_end"
    /\ log' = log \o <<"stopped">>
    /\ lifecycle' = "Idle"
    /\ stopsDone' = stopsDone + 1
    /\ pc' = "st_ret"
    /\ UNCHANGED <<procs, capture_process, pusher_process, monitor_running, exc,
                   starts, calls, stage, waited, stopTrace, appVars, cfgVars, auxVars, retryVars, obsVars>>

\* os.kill can only fail for a process that poll() reports as running.
TerminateCanRaise(p) == procs[p].alive

\* terminate() raises OSError: stop() has no handler, the error propagates
\* out of stop() from the stage it was handling.
StopTerminateRaises ==
    /\ pc = "st_check"
    /\ Handle(StopOrder[stage]) # 0
    /\ TerminateCanRaise(Handle(StopOrder[stage]))
    /\ log' = log \o <<"stopping">>
    /\ exc' = OsError
    /\ lifecycle' = "Failed"
    /\ pc' = "st_raise"
    /\ UNCHANGED <<procs, capture_process, pusher_process, monitor_running,
                   starts, calls, stage, waited, stopTrace, stopsDone, appVars,
                   cfgVars, auxVars, retryVars, obsVars>>

SupervisorStep ==
    \/ StartBegin \/ StartLaunchCapture \/ StartLaunchPusher \/ StartLaunchSingle
    \/ StartExcept
    \/ MonitorBegin \/ MonitorWait \/ MonitorExcept
    \/ StopBegin \/ StopStage \/ StopWait \/ StopEnd

\* ------------------------------------------------- RetryWatchdog
Max(a, b) == IF a >= b THEN a ELSE b

\* GetNextDelay with an exhausted schedule starting over at its first entry
\* instead of staying at its last (a faulty variant).
GetNextDelayFirstEntry(S, a, j) ==
    LET base_delay == IF a < Len(S) THEN S[a + 1] ELSE S[1]
    IN  Max(MinDelayMicros, base_delay * (1000 + j))

\* get_next_delay for schedule S (ms), attempt a and a jitter j (per-mille):
\* the entry at the attempt, the last one once the schedule is exhausted,
\* times (1 + jitter), and at least 0.1 s. The result is in microseconds.
GetNextDelay(S, a, j) ==
    LET base_delay == IF a < Len(S) THEN S[a + 1] ELSE S[Len(S)]
    IN  Max(MinDelayMicros, base_delay * (1000 + j))

\* random.uniform(-0.1, 0.1), and the values of it the watchdog loop draws.
Jitters == (0 - JitterPermille)..JitterPermille
JitterSample == {0 - JitterPermille, 0, JitterPermille}

\* CaughtByWatchdog catching launch failures only (a faulty variant).
CaughtLaunchOnly(kind) == kind = "LaunchError"

\* except Exception: what the handler of RetryWatchdog.run catches.
CaughtByWatchdog(kind) == kind \in {"LaunchError", "StreamDropError", "OSError"}

\* config["watchdog"]["enabled"]: self.watchdog is set. (The driver "once"
\* is the application configured without it.)
WatchdogEnabled == driver # "once"

\* The context RetryWatchdog.run attached to its latest log entry, and how
\* long it slept after it.
NoCtx == [evt |-> "none", attempt |-> 0, error |-> "none", delay |-> 0, slept |-> 0]

\* log("info", "watchdog", "task_start", {"attempt": self.attempt}).
TaskStartCtx == [NoCtx EXCEPT !.evt = "task_start", !.attempt = attempt]

\* TaskFailedCtx logging the attempt after it was counted (a faulty variant).
TaskFailedCtxCounted(d) ==
    [NoCtx EXCEPT !.evt = "task_failed", !.attempt = attempt + 1,
                  !.error = exc.kind, !.delay = d]

\* log("error", "watchdog", "task_failed", {"attempt": self.attempt,
\* "error": str(e), "next_retry_s": delay}), before the attempt is counted.
TaskFailedCtx(d) ==
    [NoCtx EXCEPT !.evt = "task_failed", !.attempt = attempt,
                  !.error = exc.kind, !.delay = d]

\* AttemptAfterSuccess keeping the count (a faulty variant).
AttemptKeptAfterSuccess == attempt

\* self.attempt = 0 after task() returned.
AttemptAfterSuccess == 0

\* while True: log task_start, call task().
WatchdogIterate ==
    /\ pc = "wd_start"
    /\ starts < MaxStarts
    /\ log' = log \o <<"task_start">>
    /\ wd_ctx' = TaskStartCtx
    /\ pc' = "task"
    /\ UNCHANGED <<procs, capture_process, pusher_process, monitor_running, exc,
                   lifecycle, starts, calls, stage, waited, stopTrace, stopsDone,
                   appVars, cfgVars, auxVars, outcomes, obsVars>>

\* After task(): on a normal return log task_success and reset the attempt;
\* on an Exception compute the delay, log task_failed, count the attempt.
WatchdogAfterTask ==
    /\ pc \in {"wd_ok", "wd_except"}
    /\ WatchdogEnabled
    /\ IF pc = "wd_ok"
       THEN /\ log' = log \o <<"task_success">>
            /\ wd_ctx' = [NoCtx EXCEPT !.evt = "task_success"]
            /\ attempt' = AttemptAfterSuccess
            /\ pc' = "wd_start"
            /\ UNCHANGED <<delay, exc, exit_code>>
       ELSE IF CaughtByWatchdog(exc.kind)
       THEN /\ \E j \in JitterSample : delay' = GetNextDelay(backoff_schedule, attempt, j)
            /\ log' = log \o <<"task_failed">>
            /\ wd_ctx' = TaskFailedCtx(delay')
            /\ attempt' = attempt + 1
            /\ exc' = NoExc
            /\ pc' = "wd_sleep"
            /\ UNCHANGED exit_code
       ELSE /\ pc' = "crashed"
            /\ exit_code' = 1
            /\ UNCHANGED <<log, wd_ctx, attempt, delay, exc>>
    /\ UNCHANGED <<procs, capture_process, pusher_process, monitor_running,
                   lifecycle, starts, calls, stage, waited, stopTrace, stopsDone,
                   camera_present, publish_status, signalled, cfgVars, auxVars,
                   outcomes, obsVars>>

\* time.sleep(delay) returns; the loop goes round.
WatchdogSleep ==
    /\ pc = "wd_sleep"
    /\ wd_ctx' = [wd_ctx EXCEPT !.slept = delay]
    /\ delay' = 0
    /\ pc' = "wd_start"
    /\ UNCHANGED <<supVars, calls, attempt, camera_present, publish_status,
                   signalled, exit_code, cfgVars, auxVars, outcomes, obsVars>>

\* Failures a scripted task raises.
TaskFailures == {LaunchError, MonitorOutcome(1)}

\* task() for a scripted task: each call returns or raises as its script says.
ScriptedTask ==
    /\ pc = "task"
    /\ Len(outcomes) < MaxTaskCalls
    /\ \/ /\ outcomes' = Append(outcomes, "returned")
          /\ exc' = exc
          /\ pc' = "wd_ok"
       \/ \E e \in TaskFailures :
            /\ outcomes' = Append(outcomes, e.kind)
            /\ exc' = e
            /\ pc' = "wd_except"
    /\ UNCHANGED <<procs, capture_process, pusher_process, monitor_running,
                   lifecycle, starts, calls, stage, waited, stopTrace, stopsDone,
                   log, appVars, cfgVars, auxVars, wd_ctx, obsVars>>

\* ---------------------------------------------------- StreamerApp
\* run(): start the health server, then watchdog.run(run_stream_task), or
\* run_stream_task() alone when the watchdog is disabled.
Run ==
    /\ pc = "run"
    /\ log' = log \o <<"http_started",
                       IF WatchdogEnabled THEN "watchdog_enabled" ELSE "watchdog_disabled">>
    /\ pc' = IF WatchdogEnabled THEN "wd_start" ELSE "task"
    /\ UNCHANGED <<procs, capture_process, pusher_process, monitor_running, exc,
                   lifecycle, starts, calls, stage, waited, stopTrace, stopsDone,
                   appVars, cfgVars, auxVars, retryVars, obsVars>>

\* run_stream_task: the two health updates, then pusher.start().
TaskBegin ==
    /\ pc = "task"
    /\ camera_present' = TRUE
    /\ publish_status' = "up"
    /\ pc' = "s_begin"
    /\ UNCHANGED <<supVars, calls, attempt, delay, signalled, exit_code, cfgVars, auxVars, retryVars, obsVars>>

\* start() returned: pusher.monitor() is called next. start() raised: there
\* is no handler in run_stream_task, the failure reaches the watchdog.
TaskAfterStart ==
    /\ pc \in {"s_ret", "s_raise"}
    /\ ~signalled
    /\ pc' = IF pc = "s_ret" THEN "m_begin" ELSE "wd_except"
    /\ UNCHANGED <<supVars, calls, appVars, cfgVars, auxVars, retryVars, obsVars>>

\* monitor() raised: publish status down, re-raise. (A normal return of
\* monitor() would end the task normally.)
TaskAfterMonitor ==
    /\ pc \in {"m_ret", "m_raise"}
    /\ ~signalled
    /\ IF pc = "m_raise"
       THEN /\ publish_status' = "down" /\ pc' = "wd_except"
       ELSE /\ publish_status' = publish_status /\ pc' = "wd_ok"
    /\ UNCHANGED <<supVars, calls, attempt, delay, camera_present, signalled,
                   exit_code, cfgVars, auxVars, retryVars, obsVars>>

\* The code the handler interrupts is inside a try block whose handler is a
\* bare except: RtmpPusher.monitor's read of the stage's stderr.
InsideBareExcept == pc = "m_read"

\* SIGINT / SIGTERM: the handler runs on the controlling thread, wherever it
\* is, logs shutdown_signal and calls shutdown().
Signal ==
    /\ ~signalled
    /\ pc \notin {"exited", "crashed"}
    /\ signalled' = TRUE
    /\ interrupted' = IF InsideBareExcept THEN "bare_except" ELSE "elsewhere"
    /\ log' = log \o <<"shutdown_signal">>
    /\ pc' = "sd_begin"
    /\ UNCHANGED <<procs, capture_process, pusher_process, monitor_running, exc,
                   lifecycle, starts, calls, stage, waited, stopTrace, stopsDone,
                   attempt, delay, camera_present, publish_status, exit_code,
                   cfgVars, auxVars, retryVars, evt_ctx>>

\* shutdown(): log app_shutdown, then pusher.stop().
Shutdown ==
    /\ pc = "sd_begin"
    /\ log' = log \o <<"app_shutdown">>
    /\ pc' = "st_begin"
    /\ UNCHANGED <<procs, capture_process, pusher_process, monitor_running, exc,
                   lifecycle, starts, calls, stage, waited, stopTrace, stopsDone,
                   appVars, cfgVars, auxVars, retryVars, obsVars>>

\* sys.exit(0) raises SystemExit in the interrupted code. 'except Exception'
\* lets it pass and the interpreter exits with 0. The bare except of
\* RtmpPusher.monitor swallows it: monitor() goes on to log publish_drop
\* through the closed file handle, the ValueError of that write is raised
\* again by every log call of the handlers above (monitor_error,
\* task_failed) and leaves run(): the interpreter exits with 1.
ExitCodeAfterShutdown == IF interrupted = "bare_except" THEN 1 ELSE 0

\* stop() returned inside shutdown(): health_server.stop(), logger.close()
\* (marked logger_closed in the trace), then sys.exit(0) in the handler.
ShutdownAfterStop ==
    /\ pc = "st_ret"
    /\ signalled
    /\ log' = log \o <<"http_stopped", "logger_closed">>
    /\ exit_code' = ExitCodeAfterShutdown
    /\ pc' = "exited"
    /\ UNCHANGED <<procs, capture_process, pusher_process, monitor_running, exc,
                   lifecycle, starts, calls, stage, waited, stopTrace, stopsDone,
                   attempt, delay, camera_present, publish_status, signalled,
                   cfgVars, auxVars, retryVars, obsVars>>

\* ------------------------------------------- the sequential caller
ClientIdle == {"idle", "s_ret", "s_raise", "m_ret", "m_raise", "st_ret", "st_raise"}

\* The caller handles the outcome of the last call and issues the next one.
\* It keeps the lifecycle contract: start() only on an idle supervisor,
\* monitor() only on a running one; stop() at any time.
ClientCall ==
    /\ pc \in ClientIdle
    /\ calls < MaxCalls
    /\ \E op \in {"s_begin", "m_begin", "st_begin"} :
         /\ op = "s_begin" => (lifecycle = "Idle" /\ starts < MaxStarts)
         /\ op = "m_begin" => lifecycle = "Running"
         /\ pc' = op
    /\ calls' = calls + 1
    /\ exc' = NoExc
    /\ UNCHANGED <<procs, capture_process, pusher_process, monitor_running,
                   lifecycle, starts, stage, waited, stopTrace, stopsDone, log,
                   appVars, cfgVars, auxVars, retryVars, obsVars>>

\* ------------------------------------------------------ JsonLogger
\* Sizes are in units of one short entry; thresholds are max_bytes in the
\* same unit.
\* LEVELS with info and service exchanged (a faulty variant).
LevelsServiceBelowInfo == <<"debug", "service", "info", "error">>

LEVELS == <<"debug", "info", "service", "error">>

\* The levels the callers of log() pass, and the settings drawn.
CallLevels == {"debug", "info", "service", "error", "warning"}
EntrySizes == {1, 2}
Thresholds == {0, 3}
BackupCounts == {0, 1, 2}
BackupIdx == 1..2

\* A file of the log directory: absent, or present with its entries.
NoFile == [exists |-> FALSE, data |-> <<>>]
File(entries) == [exists |-> TRUE, data |-> entries]

\* What the latest call of log() was, did and found.
NoCall == [level |-> "none", size |-> 0, outcome |-> "none", ops |-> <<>>,
           active |-> <<>>, backups |-> [i \in BackupIdx |-> NoFile],
           mirror |-> <<>>]

\* JsonLogger.__init__: the settings, the active file opened for appending,
\* no backups, nothing printed. (rotated: the contents rotated out so far,
\* oldest first; failures: the calls whose write to the file raised.)
JsonLogger(level, max_bytes, backup_count) ==
    [level |-> level, max_bytes |-> max_bytes, backup_count |-> backup_count,
     active |-> <<>>, backups |-> [i \in BackupIdx |-> NoFile], mirror |-> <<>>,
     n |-> 0, last |-> NoCall, rotated |-> <<>>, failures |-> 0]

DefaultLogger == JsonLogger("info", 3, 2)

\* LEVELS.index(level): the position, or ValueError (-1) for a level that is
\* not in the list.
LevelIndex(level) ==
    IF \E i \in 1..Len(LEVELS) : LEVELS[i] = level
    THEN (CHOOSE i \in 1..Len(LEVELS) : LEVELS[i] = level) - 1
    ELSE 0 - 1

\* The level check of log(): either index() raises, or the entry is
\* suppressed, or it goes on to be written.
LogOutcome(level, minimum) ==
    IF LevelIndex(level) < 0 \/ LevelIndex(minimum) < 0 THEN "ValueError"
    ELSE IF LevelIndex(level) < LevelIndex(minimum) THEN "suppressed"
    ELSE "written"

RECURSIVE SizeOf(_)
\* os.path.getsize of a file holding these entries.
SizeOf(entries) ==
    IF entries = <<>> THEN 0 ELSE entries[1].size + SizeOf(Tail(entries))

\* ShouldRotate rotating only above the threshold (a faulty variant).
ShouldRotateAbove(L) == SizeOf(L.active) > L.max_bytes

\* _should_rotate: the active file exists and has reached max_bytes.
ShouldRotate(L) == SizeOf(L.active) >= L.max_bytes

RECURSIVE ShiftBackups(_, _)
\* for i in range(backup_count - 1, 0, -1): rename .i to .(i+1) if it exists.
ShiftBackups(b, i) ==
    IF i < 1 THEN b
    ELSE ShiftBackups(IF b[i].exists
                      THEN [b EXCEPT ![i + 1] = b[i], ![i] = NoFile]
                      ELSE b, i - 1)

\* _rotate: remove the oldest backup, shift the others, rename the active
\* file to .1, open a new active file.
Rotate(L) ==
    LET removed == IF L.backup_count \in BackupIdx
                   THEN [L.backups EXCEPT ![L.backup_count] = NoFile]
                   ELSE L.backups
        shifted == ShiftBackups(removed, L.backup_count - 1)
    IN  [L EXCEPT !.backups = [shifted EXCEPT ![1] = File(L.active)],
                  !.active = <<>>,
                  !.rotated = Append(@, L.active)]

\* log(level, ...) with an entry of the given size, as one call.
Log(L, level, size) ==
    LET outcome == LogOutcome(level, L.level)
        rotate == ShouldRotate(L)
        R == IF rotate THEN Rotate(L) ELSE L
        entry == [id |-> L.n + 1, level |-> level, size |-> size]
        call == [level |-> level, size |-> size, outcome |-> outcome,
                 ops |-> <<>>, active |-> L.active, backups |-> L.backups,
                 mirror |-> L.mirror]
    IN  IF outcome # "written"
        THEN [L EXCEPT !.n = @ + 1, !.last = call]
        ELSE [R EXCEPT !.active = Append(@, entry),
                       !.mirror = Append(@, entry),
                       !.n = @ + 1,
                       !.last = [call EXCEPT !.ops =
                                   <<"getsize">>
                                   \o (IF rotate THEN <<"rotate">> ELSE <<>>)
                                   \o <<"write", "flush", "print">>]]

\* One call of log() by a single caller.
LogCall ==
    /\ logger.n < MaxLogCalls
    /\ \E level \in CallLevels, size \in EntrySizes :
         logger' = Log(logger, level, size)
    /\ UNCHANGED <<supVars, pc, calls, appVars, cfgVars, hreq, rd, retryVars, obsVars>>

\* --------------------------------------------------- HealthStatus
\* The health thread: its position in to_dict, the locals of the call, the
\* field states that existed while it ran, and the snapshots returned so far.
IdleRequest == [pc |-> "h_idle", status |-> "none", present |-> FALSE,
                rtmp |-> "none", existed |-> {}, responses |-> <<>>]

ToDictRunning == hreq.pc \notin {"h_idle", "h_done"}

\* The field states a running to_dict call overlaps with.
Existed(c, p) == IF ToDictRunning THEN hreq.existed \cup {<<c, p>>} ELSE hreq.existed

\* update_camera_status(present).
UpdateCameraStatus ==
    /\ \E present \in BOOLEAN :
         /\ camera_present' = present
         /\ hreq' = [hreq EXCEPT !.existed = Existed(present, publish_status)]
    /\ UNCHANGED <<supVars, pc, calls, attempt, delay, publish_status, signalled,
                   exit_code, cfgVars, logger, rd, retryVars, obsVars>>

\* update_publish_status(status).
UpdatePublishStatus ==
    /\ \E status \in {"up", "down"} :
         /\ publish_status' = status
         /\ hreq' = [hreq EXCEPT !.existed = Existed(camera_present, status)]
    /\ UNCHANGED <<supVars, pc, calls, attempt, delay, camera_present, signalled,
                   exit_code, cfgVars, logger, rd, retryVars, obsVars>>

\* do_GET calls to_dict: overall_status = "ok".
ToDictBegin ==
    /\ ~ToDictRunning
    /\ Len(hreq.responses) < MaxRequests
    /\ hreq' = [hreq EXCEPT !.pc = "h_if1", !.status = "ok", !.present = FALSE,
                            !.rtmp = "none",
                            !.existed = {<<camera_present, publish_status>>}]
    /\ UNCHANGED <<supVars, pc, calls, appVars, cfgVars, logger, rd, retryVars, obsVars>>

\* The status the first and the second if of to_dict assign.
FirstIfStatus == "degraded"

\* SecondIfStatus repeating the first (a faulty variant).
SecondIfStatusDegraded == "degraded"

SecondIfStatus == "down"

\* OverallStatus reporting down as soon as either field is bad (a faulty
\* variant).
OverallStatusAnyDown(present, rtmp) ==
    IF ~present \/ rtmp = "down" THEN SecondIfStatus ELSE "ok"

\* to_dict with no update beside it: overall_status after the two ifs.
OverallStatus(present, rtmp) ==
    LET first == IF ~present \/ rtmp = "down" THEN FirstIfStatus ELSE "ok"
    IN  IF ~present /\ rtmp = "down" THEN SecondIfStatus ELSE first

\* to_dict, one read of a field at a time: the two operands of the first
\* condition (or), of the second (and), then the two reads that fill the
\* dictionary, which is returned and sent.
ToDictStep ==
    /\ ToDictRunning
    /\ hreq' =
         IF hreq.pc = "h_if1"
         THEN IF ~camera_present
              THEN [hreq EXCEPT !.status = FirstIfStatus, !.pc = "h_if2"]
              ELSE [hreq EXCEPT !.pc = "h_if1_or"]
         ELSE IF hreq.pc = "h_if1_or"
         THEN IF publish_status = "down"
              THEN [hreq EXCEPT !.status = FirstIfStatus, !.pc = "h_if2"]
              ELSE [hreq EXCEPT !.pc = "h_if2"]
         ELSE IF hreq.pc = "h_if2"
         THEN IF ~camera_present
              THEN [hreq EXCEPT !.pc = "h_if2_and"]
              ELSE [hreq EXCEPT !.pc = "h_present"]
         ELSE IF hreq.pc = "h_if2_and"
         THEN IF publish_status = "down"
              THEN [hreq EXCEPT !.status = SecondIfStatus, !.pc = "h_present"]
              ELSE [hreq EXCEPT !.pc = "h_present"]
         ELSE IF hreq.pc = "h_present"
         THEN [hreq EXCEPT !.present = camera_present, !.pc = "h_rtmp"]
         ELSE [hreq EXCEPT !.pc = "h_done",
                           !.responses = Append(@, [status |-> hreq.status,
                                                    present |-> hreq.present,
                                                    rtmp |-> publish_status,
                                                    existed |-> hreq.existed])]
    /\ UNCHANGED <<supVars, pc, calls, appVars, cfgVars, logger, rd, retryVars, obsVars>>

\* ------------------------------------- RtpPusher._stderr_reader
\* Text is a sequence of characters.
UpperCase == <<"A", "B", "C", "D", "E", "F", "G", "H", "I", "J", "K", "L", "M", "N", "O", "P", "Q", "R", "S", "T", "U", "V", "W", "X", "Y", "Z">>
LowerCase == <<"a", "b", "c", "d", "e", "f", "g", "h", "i", "j", "k", "l", "m", "n", "o", "p", "q", "r", "s", "t", "u", "v", "w", "x", "y", "z">>

\* str.lower(), character by character.
LowerChar(c) ==
    IF \E i \in 1..Len(UpperCase) : UpperCase[i] = c
    THEN LowerCase[CHOOSE i \in 1..Len(UpperCase) : UpperCase[i] = c]
    ELSE c
Lower(text) == [i \in 1..Len(text) |-> LowerChar(text[i])]

\* str.strip(): without the leading and trailing whitespace.
Whitespace == {" ", "\t", "\n", "\r"}
Strip(text) ==
    LET keep == {i \in 1..Len(text) : text[i] \notin Whitespace}
    IN  IF keep = {} THEN <<>>
        ELSE SubSeq(text, CHOOSE i \in keep : \A k \in keep : i <= k,
                          CHOOSE i \in keep : \A k \in keep : i >= k)

\* keyword in text.
Contains(text, keyword) ==
    \E i \in 1..(Len(text) - Len(keyword) + 1) :
       SubSeq(text, i, i + Len(keyword) - 1) = keyword

KwDropped == <<"d", "r", "o", "p", "p", "e", "d">>
KwDrop == <<"d", "r", "o", "p">>
KwCorrupt == <<"c", "o", "r", "r", "u", "p", "t">>
KwError == <<"e", "r", "r", "o", "r">>
KwBuffer == <<"b", "u", "f", "f", "e", "r">>
KwOverflow == <<"o", "v", "e", "r", "f", "l", "o", "w">>
KwFull == <<"f", "u", "l", "l">>
KwNetwork == <<"n", "e", "t", "w", "o", "r", "k">>
KwConnection == <<"c", "o", "n", "n", "e", "c", "t", "i", "o", "n">>

\* Classify matching the line as written, not its lower-case form (a faulty
\* variant).
ClassifyAsWritten(line_str) ==
    IF Contains(line_str, KwDropped) \/ Contains(line_str, KwDrop)
    THEN "frames_dropped"
    ELSE IF Contains(line_str, KwCorrupt) \/ Contains(line_str, KwError)
    THEN "stream_error"
    ELSE IF Contains(line_str, KwBuffer)
            /\ (Contains(line_str, KwOverflow) \/ Contains(line_str, KwFull))
    THEN "buffer_issue"
    ELSE IF Contains(line_str, KwNetwork) \/ Contains(line_str, KwConnection)
    THEN "network_issue"
    ELSE "none"

\* The if / elif chain of _stderr_reader on line_lower: the event the reader
\* logs for the line, "none" when no branch is taken.
Classify(line_str) ==
    LET line_lower == Lower(line_str)
    IN  IF Contains(line_lower, KwDropped) \/ Contains(line_lower, KwDrop)
        THEN "frames_dropped"
        ELSE IF Contains(line_lower, KwCorrupt) \/ Contains(line_lower, KwError)
        THEN "stream_error"
        ELSE IF Contains(line_lower, KwBuffer)
                /\ (Contains(line_lower, KwOverflow) \/ Contains(line_lower, KwFull))
        THEN "buffer_issue"
        ELSE IF Contains(line_lower, KwNetwork) \/ Contains(line_lower, KwConnection)
        THEN "network_issue"
        ELSE "none"

\* line_str[:500].
Truncate(line_str) ==
    SubSeq(line_str, 1, IF Len(line_str) < MessageLimit THEN Len(line_str) ELSE MessageLimit)

\* The lines the process writes to stderr: one or two words, two lines ffmpeg
\* prints, blank lines, and a line longer than the message limit.
Words ==
    {<<"W", "a", "r", "n", "i", "n", "g", ":">>,
     <<"f", "r", "a", "m", "e", "s">>,
     <<"d", "r", "o", "p", "p", "e", "d">>,
     <<"D", "R", "O", "P">>,
     <<"c", "o", "r", "r", "u", "p", "t">>,
     <<"E", "r", "r", "o", "r">>,
     <<"b", "u", "f", "f", "e", "r">>,
     <<"o", "v", "e", "r", "f", "l", "o", "w">>,
     <<"F", "u", "l", "l">>,
     <<"n", "e", "t", "w", "o", "r", "k">>,
     <<"C", "o", "n", "n", "e", "c", "t", "i", "o", "n">>,
     <<"o", "k">>}
DroppedLine == <<"W", "a", "r", "n", "i", "n", "g", ":", " ", "1", "2", " ", "f", "r", "a", "m", "e", "s", " ", "d", "r", "o", "p", "p", "e", "d">>
PeerLine == <<"C", "o", "n", "n", "e", "c", "t", "i", "o", "n", " ", "r", "e", "s", "e", "t", " ", "b", "y", " ", "p", "e", "e", "r">>
LongLine == KwDrop \o [i \in 1..(MessageLimit + 20) |-> "x"]
Lines ==
    {w \o <<"\n">> : w \in Words}
    \cup {v \o <<" ">> \o w \o <<"\n">> : v \in Words, w \in Words}
    \cup {DroppedLine \o <<"\n">>, PeerLine \o <<"\n">>, LongLine \o <<"\n">>,
          <<"\n">>, <<" ", "\n">>}

\* The reader thread: where it is, the label of its process, the line it read
\* last and what it did with it, the warning entries it got written, and
\* what ended its loop.
IdleReader == [pc |-> "r_idle", process |-> "none", reads |-> 0, line |-> <<>>,
               handled |-> FALSE, category |-> "none", matched |-> 0,
               warnings |-> <<>>, ended |-> "no", pid |-> 0, stream |-> "none"]

\* Finally leaving the stream open (a faulty variant).
FinallySkipsClose(r) == [r EXCEPT !.pc = "r_closed"]

\* finally: if process.stderr: process.stderr.close(). The thread ends.
Finally(r) == [r EXCEPT !.pc = "r_closed", !.stream = "closed"]

\* What closing the read end does to the process at the other end of the
\* pipe: one that still runs has lost the only reader of its stderr, and its
\* next write there fails with a broken pipe.
ReadEndClosed(ps, p) ==
    IF p # 0
    THEN IF ps[p].alive THEN [ps EXCEPT ![p].stderr = "broken"] ELSE ps
    ELSE ps

\* The context of the entry the reader logs for a matched line.
WarningEntry(category, process_name, line_str) ==
    [level |-> "warning", event |-> category, process |-> process_name,
     message |-> Truncate(line_str)]

\* _start_stderr_monitor: set the flag, start the thread on the terminal
\* stage with the label "ffmpeg".
ReaderStart ==
    /\ rd.pc = "r_idle"
    /\ monitor_running' = TRUE
    /\ rd' = [rd EXCEPT !.pc = "r_reading", !.process = "ffmpeg", !.stream = "open"]
    /\ log' = log \o <<"stderr_monitor_started">>
    /\ UNCHANGED <<procs, capture_process, pusher_process, pc, exc, lifecycle,
                   starts, calls, stage, waited, stopTrace, stopsDone, appVars,
                   cfgVars, hreq, logger, retryVars, obsVars>>

\* self.monitor_running = False, by the controlling thread.
ClearMonitorFlag ==
    /\ rd.pc = "r_reading"
    /\ monitor_running
    /\ monitor_running' = FALSE
    /\ UNCHANGED <<procs, capture_process, pusher_process, pc, exc, lifecycle,
                   starts, calls, stage, waited, stopTrace, stopsDone, log,
                   appVars, cfgVars, auxVars, retryVars, obsVars>>

\* readline returned a line: one round of the loop. The flag is checked, the
\* line decoded and stripped, and a matched line logged at level warning.
\* A log call that raises ends the loop in the except block, which logs
\* stderr_monitor_error; the finally block closes the stream.
ReaderLineFrom(lines) ==
    /\ rd.pc = "r_reading"
    /\ rd.reads < MaxLines
    /\ \E line \in lines :
         LET line_str == Strip(line)
             category == IF line_str = <<>> THEN "none" ELSE Classify(line_str)
             outcome == LogOutcome("warning", logger.level)
             read == [rd EXCEPT !.reads = @ + 1, !.line = line]
             done == [read EXCEPT !.handled = TRUE, !.category = category,
                                  !.matched = IF category = "none" THEN @ ELSE @ + 1]
         IN  IF ~monitor_running
             THEN /\ rd' = Finally([read EXCEPT !.handled = FALSE, !.category = "none",
                                                !.ended = "break"])
                  /\ log' = log
                  /\ procs' = ReadEndClosed(procs, rd.pid)
             ELSE IF category = "none" \/ outcome = "suppressed"
             THEN /\ rd' = done
                  /\ log' = log
                  /\ procs' = procs
             ELSE IF outcome = "written"
             THEN /\ rd' = [done EXCEPT !.warnings =
                              Append(@, WarningEntry(category, rd.process, line_str))]
                  /\ log' = log \o <<category>>
                  /\ procs' = procs
             ELSE /\ rd' = Finally([done EXCEPT !.ended = "except"])
                  /\ log' = log \o <<"stderr_monitor_error">>
                  /\ procs' = ReadEndClosed(procs, rd.pid)
    /\ UNCHANGED <<capture_process, pusher_process, monitor_running, pc,
                   exc, lifecycle, starts, calls, stage, waited, stopTrace,
                   stopsDone, appVars, cfgVars, hreq, logger, retryVars, obsVars>>

\* The reader fed with any of the lines of the vocabulary.
ReaderLine == ReaderLineFrom(Lines)

\* readline returned b'': end of stream, the finally block closes it.
\* The write end is closed when the process at the other end has exited.
ReaderEof ==
    /\ rd.pc = "r_reading"
    /\ IF rd.pid = 0 THEN TRUE ELSE ~procs[rd.pid].alive
    /\ rd' = Finally([rd EXCEPT !.ended = "eof"])
    /\ UNCHANGED <<supVars, pc, calls, appVars, cfgVars, hreq, logger, retryVars, obsVars>>

\* ------------------------------------------------- specifications

InitCommon ==
    /\ variant \in {"rtmp", "rtp"}
    /\ twoStage \in BOOLEAN
    /\ procs = <<>>
    /\ capture_process = 0
    /\ pusher_process = 0
    /\ monitor_running = FALSE
    /\ exc = NoExc
    /\ lifecycle = "Idle"
    /\ starts = 0
    /\ calls = 0
    /\ stage = 1
    /\ waited = 0
    /\ stopTrace = <<>>
    /\ stopsDone = 0
    /\ attempt = 0
    /\ delay = 0
    /\ camera_present = FALSE
    /\ publish_status = "down"
    /\ signalled = FALSE
    /\ exit_code = 0 - 1
    /\ wd_ctx = NoCtx
    /\ outcomes = <<>>
    /\ evt_ctx = NoEvt
    /\ interrupted = "none"
    /\ hreq = IdleRequest
    /\ rd = IdleReader

\* Backoff schedules (ms) of the application runs.
AppSchedules == {<<1000, 2000>>}

\* StreamerApp after __init__ (app_start logged), about to run().
Init ==
    /\ InitCommon
    /\ logger = DefaultLogger
    /\ driver = "app"
    /\ backoff_schedule \in AppSchedules
    /\ log = <<"app_start">>
    /\ pc = "run"

AppStep ==
    \/ Run \/ WatchdogIterate \/ TaskBegin \/ TaskAfterStart \/ TaskAfterMonitor
    \/ WatchdogAfterTask \/ WatchdogSleep
    \/ Shutdown \/ ShutdownAfterStop

Next ==
    \/ AppStep
    \/ SupervisorStep
    \/ Signal
    \/ \E p \in Pids : ProcExit(p)

Spec == Init /\ [][Next]_vars

\* The controlling thread keeps running: a call that can proceed does.
FairSpec == Spec /\ WF_vars(AppStep \/ SupervisorStep)

\* A supervisor after __init__, with its caller.
InitSup ==
    /\ InitCommon
    /\ logger = DefaultLogger
    /\ driver = "client"
    /\ backoff_schedule \in AppSchedules
    /\ log = <<>>
    /\ pc = "idle"

NextSup ==
    \/ ClientCall
    \/ SupervisorStep
    \/ \E p \in Pids : ProcExit(p)

SpecSup == InitSup /\ [][NextSup]_vars

\* A running process writes a chunk of diagnostic output to its stderr pipe;
\* with the buffer full the write blocks, and the process with it.
ProcWriteStderr(p) ==
    /\ pc \notin {"exited", "crashed"}
    /\ procs[p].alive
    /\ procs[p].stderr = "pipe"
    /\ procs[p].pending < PipeCapacity
    /\ procs' = [procs EXCEPT ![p].pending = @ + 1]
    /\ UNCHANGED <<capture_process, pusher_process, monitor_running, pc, exc,
                   lifecycle, starts, calls, stage, waited, stopTrace, stopsDone,
                   log, appVars, cfgVars, auxVars, retryVars, obsVars>>

\* The stderr reader thread of p, where start() created one, takes what the
\* pipe holds (process.stderr.readline in a loop).
ReaderDrain(p) ==
    /\ pc \notin {"exited", "crashed"}
    /\ procs[p].readers > 0
    /\ procs[p].pending > 0
    /\ procs' = [procs EXCEPT ![p].pending = 0]
    /\ UNCHANGED <<capture_process, pusher_process, monitor_running, pc, exc,
                   lifecycle, starts, calls, stage, waited, stopTrace, stopsDone,
                   log, appVars, cfgVars, auxVars, retryVars, obsVars>>

\* The supervisor with the diagnostic pipes of its processes.
NextPipe ==
    \/ NextSup
    \/ \E p \in Pids : ProcWriteStderr(p)
    \/ \E p \in Pids : ReaderDrain(p)

SpecPipe == InitSup /\ [][NextPipe]_vars

FairSpecSup == SpecSup /\ WF_vars(SupervisorStep)

\* A caller that calls monitor() whatever state the supervisor is in: before
\* any start(), after a start() that raised, after stop().
ClientMonitor ==
    /\ pc \in ClientIdle
    /\ calls < MaxCalls
    /\ pc' = "m_begin"
    /\ calls' = calls + 1
    /\ exc' = NoExc
    /\ UNCHANGED <<procs, capture_process, pusher_process, monitor_running,
                   lifecycle, starts, stage, waited, stopTrace, stopsDone, log,
                   appVars, cfgVars, auxVars, retryVars, obsVars>>

NextAnyState == NextSup \/ ClientMonitor

SpecAnyState == InitSup /\ [][NextAnyState]_vars

NextFault == NextSup \/ StopTerminateRaises

SpecFault == InitSup /\ [][NextFault]_vars

\* ---- a failing log file under the application ----

\* A log call of start() (capture_start, pusher_start, stream_start) raises:
\* file_handle.write or flush failed. The call is inside start()'s try block,
\* so the error enters its except block before anything is launched by
\* this step.
StartLogRaises ==
    /\ pc \in {"s_capture", "s_pusher", "s_single"}
    /\ logger.failures < MaxSinkFailures
    /\ logger' = [logger EXCEPT !.failures = @ + 1]
    /\ exc' = OsError
    /\ pc' = "s_except"
    /\ UNCHANGED <<procs, capture_process, pusher_process, monitor_running,
                   lifecycle, starts, calls, stage, waited, stopTrace, stopsDone,
                   log, appVars, cfgVars, hreq, rd, retryVars, obsVars>>

\* The drop entry of monitor() raises in the same way, inside monitor()'s
\* try block: the except block logs monitor_error and re-raises the error.
MonitorLogRaises ==
    /\ pc = "m_wait"
    /\ ~procs[pusher_process].alive
    /\ logger.failures < MaxSinkFailures
    /\ logger' = [logger EXCEPT !.failures = @ + 1]
    /\ exc' = OsError
    /\ pc' = "m_except"
    /\ monitor_running' = FALSE
    /\ UNCHANGED <<procs, capture_process, pusher_process, lifecycle, starts,
                   calls, stage, waited, stopTrace, stopsDone, log, appVars,
                   cfgVars, hreq, rd, retryVars, obsVars>>

NextSinkFault == Next \/ StartLogRaises \/ MonitorLogRaises

\* ---- the application with the watchdog disabled ----

\* run_stream_task() called by run() directly has ended: a return ends
\* run() and main(), exit code 0; an exception leaves run() and main()
\* uncaught, exit code 1.
RunOnceEnds ==
    /\ pc \in {"wd_ok", "wd_except"}
    /\ ~WatchdogEnabled
    /\ IF pc = "wd_ok"
       THEN /\ pc' = "exited" /\ exit_code' = 0
       ELSE /\ pc' = "crashed" /\ exit_code' = 1
    /\ UNCHANGED <<supVars, calls, attempt, delay, camera_present, publish_status,
                   signalled, cfgVars, auxVars, retryVars, obsVars>>

InitOnce ==
    /\ InitCommon
    /\ logger = DefaultLogger
    /\ driver = "once"
    /\ backoff_schedule \in AppSchedules
    /\ log = <<"app_start">>
    /\ pc = "run"

OnceStep ==
    \/ Run \/ TaskBegin \/ TaskAfterStart \/ TaskAfterMonitor \/ RunOnceEnds
    \/ Shutdown \/ ShutdownAfterStop

NextOnce ==
    \/ OnceStep
    \/ SupervisorStep
    \/ Signal
    \/ \E p \in Pids : ProcExit(p)

SpecOnce == InitOnce /\ [][NextOnce]_vars

SpecSinkFault == Init /\ [][NextSinkFault]_vars

\* get_next_delay applied to drawn schedules and attempt indices.
ScheduleValues == {50, 1000, 2000}
Schedules == UNION {[1..n -> ScheduleValues] : n \in 1..MaxSchedLen}

InitDelay ==
    /\ InitCommon
    /\ logger = DefaultLogger
    /\ driver = "delay"
    /\ backoff_schedule \in Schedules
    /\ log = <<>>
    /\ pc = "delay_idle"

\* One call of get_next_delay with self.attempt = a, for a drawn jitter.
ComputeDelay ==
    /\ pc = "delay_idle"
    /\ \E a \in 0..MaxAttemptIdx, j \in Jitters :
         /\ attempt' = a
         /\ delay' = GetNextDelay(backoff_schedule, a, j)
    /\ pc' = "delay_done"
    /\ UNCHANGED <<supVars, calls, camera_present, publish_status, signalled,
                   exit_code, cfgVars, auxVars, retryVars, obsVars>>

SpecDelay == InitDelay /\ [][ComputeDelay]_vars

\* RetryWatchdog.run(task) for a scripted task, on drawn schedules.
InitRetry ==
    /\ InitCommon
    /\ logger = DefaultLogger
    /\ variant = "rtp" /\ twoStage
    /\ driver = "retry"
    /\ backoff_schedule \in Schedules
    /\ log = <<>>
    /\ pc = "wd_start"

NextRetry == WatchdogIterate \/ ScriptedTask \/ WatchdogAfterTask \/ WatchdogSleep

SpecRetry == InitRetry /\ [][NextRetry]_vars

\* HealthStatus after __init__, with the health thread.
InitHealth ==
    /\ InitCommon
    /\ logger = DefaultLogger
    /\ variant = "rtp" /\ twoStage
    /\ driver = "health"
    /\ backoff_schedule \in AppSchedules
    /\ log = <<>>
    /\ pc = "idle"

\* The updates and the reads issued one after the other.
NextHealthSeq ==
    \/ ~ToDictRunning /\ (UpdateCameraStatus \/ UpdatePublishStatus)
    \/ ToDictBegin
    \/ ToDictStep

SpecHealthSeq == InitHealth /\ [][NextHealthSeq]_vars

\* The updates issued by one thread while the health thread reads.
NextHealth == UpdateCameraStatus \/ UpdatePublishStatus \/ ToDictBegin \/ ToDictStep

SpecHealth == InitHealth /\ [][NextHealth]_vars

\* A JsonLogger after __init__ for each drawn setting, with one caller.
InitLog ==
    /\ InitCommon
    /\ variant = "rtp" /\ twoStage
    /\ driver = "log"
    /\ backoff_schedule \in AppSchedules
    /\ log = <<>>
    /\ pc = "idle"
    /\ \E level \in CallLevels, max_bytes \in Thresholds, backup_count \in BackupCounts :
         logger = JsonLogger(level, max_bytes, backup_count)

SpecLog == InitLog /\ [][LogCall]_vars

\* ---- log() called by two threads on the one JsonLogger ----
\* JsonLogger takes no lock: a call is a sequence of steps (the level check,
\* _should_rotate, the close, the renames and the open of _rotate, the
\* write with its flush, the print) between which the other thread can run.

\* The controlling thread and the stderr reader thread.
Threads == {"main", "reader"}
\* The levels they log at: the reader's valid calls are stderr_monitor_error.
ThreadLevels(t) == IF t = "main" THEN {"debug", "info"} ELSE {"error"}
\* rotate_max_mb, in entries, of the shared logger.
SharedThresholds == {0, 1}

IdleCall == [pc |-> "idle", entry |-> 0]

\* JsonLogger.__init__ for the shared logger. exists: the active path names
\* a file; handle: self.file_handle, closed or not, and where the file it
\* was opened on is now (0: the active path, k: backup k, -1: removed);
\* sink: the entries written through the handle; raised: the entries whose
\* write raised; returned: the entries whose call returned.
SharedLogger(max_bytes, backup_count) ==
    [level |-> "info", max_bytes |-> max_bytes, backup_count |-> backup_count,
     active |-> <<>>, exists |-> TRUE, backups |-> [i \in BackupIdx |-> NoFile],
     handle |-> [closed |-> FALSE, at |-> 0],
     mirror |-> <<>>, sink |-> <<>>, raised |-> <<>>, returned |-> <<>>,
     suppressed |-> 0, n |-> 0, calls |-> [t \in Threads |-> IdleCall]]

\* log(): the level check. A suppressed call returns at once.
LogEnter(t) ==
    /\ logger.calls[t].pc = "idle"
    /\ logger.n < MaxLogCalls
    /\ \E level \in ThreadLevels(t) :
         IF LogOutcome(level, logger.level) = "written"
         THEN logger' = [logger EXCEPT !.n = @ + 1,
                           !.calls[t] = [pc |-> "l_size", entry |-> logger.n + 1]]
         ELSE logger' = [logger EXCEPT !.n = @ + 1, !.suppressed = @ + 1]
    /\ UNCHANGED <<supVars, pc, calls, appVars, cfgVars, hreq, rd, retryVars, obsVars>>

\* _should_rotate: the active path exists and its size has reached max_bytes.
LogCheckSize(t) ==
    /\ logger.calls[t].pc = "l_size"
    /\ logger' = [logger EXCEPT !.calls[t].pc =
                     IF logger.exists /\ Len(logger.active) >= logger.max_bytes
                     THEN "l_close" ELSE "l_write"]
    /\ UNCHANGED <<supVars, pc, calls, appVars, cfgVars, hreq, rd, retryVars, obsVars>>

\* _rotate: if self.file_handle: self.file_handle.close().
LogRotateClose(t) ==
    /\ logger.calls[t].pc = "l_close"
    /\ logger' = [logger EXCEPT !.calls[t].pc = "l_rename", !.handle.closed = TRUE]
    /\ UNCHANGED <<supVars, pc, calls, appVars, cfgVars, hreq, rd, retryVars, obsVars>>

\* Where a file is after the removal and the renames of _rotate.
Renamed(L, at) ==
    IF at < 0 THEN at
    ELSE IF at = 0 THEN (IF L.exists THEN 1 ELSE 0)
    ELSE IF at >= L.backup_count THEN 0 - 1
    ELSE at + 1

\* _rotate: remove the oldest backup, shift the others, rename the active
\* file to .1 if the path exists. (The renames are taken as one step.)
LogRotateRename(t) ==
    /\ logger.calls[t].pc = "l_rename"
    /\ LET L == logger
           removed == IF L.backup_count \in BackupIdx
                      THEN [L.backups EXCEPT ![L.backup_count] = NoFile]
                      ELSE L.backups
           shifted == ShiftBackups(removed, L.backup_count - 1)
       IN  logger' = [L EXCEPT !.calls[t].pc = "l_open",
                               !.backups = IF L.exists
                                           THEN [shifted EXCEPT ![1] = File(L.active)]
                                           ELSE shifted,
                               !.active = <<>>,
                               !.exists = FALSE,
                               !.handle.at = Renamed(L, @)]
    /\ UNCHANGED <<supVars, pc, calls, appVars, cfgVars, hreq, rd, retryVars, obsVars>>

\* _open_log_file: open(self.log_file, "a") creates the file if the path
\* names none; self.file_handle is the new handle.
LogRotateOpen(t) ==
    /\ logger.calls[t].pc = "l_open"
    /\ logger' = [logger EXCEPT !.calls[t].pc = "l_write", !.exists = TRUE,
                                !.handle = [closed |-> FALSE, at |-> 0]]
    /\ UNCHANGED <<supVars, pc, calls, appVars, cfgVars, hreq, rd, retryVars, obsVars>>

\* self.file_handle.write(...); flush(): ValueError on a closed handle, which
\* leaves log(); else the line goes to the file the handle was opened on.
LogWrite(t) ==
    /\ logger.calls[t].pc = "l_write"
    /\ LET L == logger
           e == L.calls[t].entry
           at == L.handle.at
       IN  IF L.handle.closed
           THEN logger' = [L EXCEPT !.calls[t] = IdleCall, !.raised = Append(@, e)]
           ELSE logger' = [L EXCEPT !.calls[t].pc = "l_print",
                                    !.sink = Append(@, e),
                                    !.active = IF at = 0 THEN Append(@, e) ELSE @,
                                    !.backups = IF at \in BackupIdx
                                                THEN [@ EXCEPT ![at].data = Append(@, e)]
                                                ELSE @]
    /\ UNCHANGED <<supVars, pc, calls, appVars, cfgVars, hreq, rd, retryVars, obsVars>>

\* print(json.dumps(entry)); log() returns.
LogPrint(t) ==
    /\ logger.calls[t].pc = "l_print"
    /\ logger' = [logger EXCEPT !.calls[t] = IdleCall,
                                !.mirror = Append(@, logger.calls[t].entry),
                                !.returned = Append(@, logger.calls[t].entry)]
    /\ UNCHANGED <<supVars, pc, calls, appVars, cfgVars, hreq, rd, retryVars, obsVars>>

InitLogShared ==
    /\ InitCommon
    /\ variant = "rtp" /\ ~twoStage
    /\ driver = "log"
    /\ backoff_schedule \in AppSchedules
    /\ log = <<>>
    /\ pc = "idle"
    /\ \E max_bytes \in SharedThresholds, backup_count \in BackupIdx :
         logger = SharedLogger(max_bytes, backup_count)

NextLogShared ==
    \E t \in Threads :
      \/ LogEnter(t) \/ LogCheckSize(t)
      \/ LogRotateClose(t) \/ LogRotateRename(t) \/ LogRotateOpen(t)
      \/ LogWrite(t) \/ LogPrint(t)

SpecLogShared == InitLogShared /\ [][NextLogShared]_vars

\* An RtpPusher whose terminal stage was launched, with its reader thread.
InitReader ==
    /\ InitCommon
    /\ logger = DefaultLogger
    /\ variant = "rtp" /\ twoStage
    /\ driver = "reader"
    /\ backoff_schedule \in AppSchedules
    /\ log = <<>>
    /\ pc = "idle"

NextReader == ReaderStart \/ ReaderLine \/ ReaderEof \/ ClearMonitorFlag

SpecReader == InitReader /\ [][NextReader]_vars

\* ---- the stderr reader beside the supervisor that started it ----

\* The thread _start_stderr_monitor created on process p begins to run
\* _stderr_reader(p, "ffmpeg"). One reader thread is followed, that of any of
\* the processes that were given one.
ReaderBegin ==
    /\ rd.pc = "r_idle"
    /\ \E p \in Pids :
         /\ procs[p].readers > 0
         /\ rd' = [rd EXCEPT !.pc = "r_reading", !.process = "ffmpeg", !.pid = p,
                             !.stream = "open"]
    /\ UNCHANGED <<supVars, pc, calls, appVars, cfgVars, hreq, logger, retryVars, obsVars>>

\* What the followed process writes to its stderr: a line that matches a
\* keyword, one that matches none, an empty one.
WatchedLines == {DroppedLine \o <<"\n">>, <<"o", "k", "\n">>, <<"\n">>}

ReaderLineWatched == ReaderLineFrom(WatchedLines)

\* readline raises (a stream read error): the except block logs
\* stderr_monitor_error, the finally block closes the stream.
ReaderReadError ==
    /\ rd.pc = "r_reading"
    /\ rd' = Finally([rd EXCEPT !.ended = "read_error"])
    /\ log' = log \o <<"stderr_monitor_error">>
    /\ procs' = ReadEndClosed(procs, rd.pid)
    /\ UNCHANGED <<capture_process, pusher_process, monitor_running, pc,
                   exc, lifecycle, starts, calls, stage, waited, stopTrace,
                   stopsDone, appVars, cfgVars, hreq, logger, retryVars, obsVars>>

\* A process whose stderr pipe has no reader left writes to it: SIGPIPE,
\* whose default action (restored in the child by Popen) ends the process.
\* A process that ignores the signal carries on with a failed write.
ProcBrokenPipe(p) ==
    /\ pc \notin {"exited", "crashed"}
    /\ procs[p].alive
    /\ procs[p].stderr = "broken"
    /\ procs' = [procs EXCEPT ![p].alive = FALSE, ![p].code = SigPipeCode]
    /\ UNCHANGED <<capture_process, pusher_process, monitor_running, pc, exc,
                   lifecycle, starts, calls, stage, waited, stopTrace, stopsDone,
                   log, appVars, cfgVars, auxVars, retryVars, obsVars>>

ReaderStep == ReaderBegin \/ ReaderLineWatched \/ ReaderEof

\* The reader exists in RtpPusher only, and only on the terminal stage: the
\* single-stage pipeline is followed.
InitStderr == InitSup /\ variant = "rtp" /\ ~twoStage

\* The calls of a single-stage supervisor: start() takes the USB branch.
SingleStageStep ==
    \/ StartBegin \/ StartLaunchSingle \/ StartExcept
    \/ MonitorBegin \/ MonitorWait \/ MonitorExcept
    \/ StopBegin \/ StopStage \/ StopWait \/ StopEnd

NextStderr ==
    \/ ClientCall
    \/ SingleStageStep
    \/ \E p \in Pids : ProcExit(p)
    \/ ReaderStep
    \/ ReaderReadError
    \/ \E p \in Pids : ProcBrokenPipe(p)

SpecStderr == InitStderr /\ [][NextStderr]_vars

\* The controlling thread and the reader thread both keep being scheduled.
FairSpecStderr == SpecStderr /\ WF_vars(SingleStageStep) /\ WF_vars(ReaderStep)

\* ---- the application with the stderr reader thread, call by call ----

\* One round of the reader's loop up to its log call: readline returned a
\* line, the flag is checked, the line decoded, stripped and classified. A
\* matched line leaves the thread about to call self.logger.log.
ReaderTakeLine ==
    /\ pc \notin {"exited", "crashed"}
    /\ rd.pc = "r_reading"
    /\ rd.reads < MaxLines
    /\ \E line \in WatchedLines :
         LET line_str == Strip(line)
             category == IF line_str = <<>> THEN "none" ELSE Classify(line_str)
             read == [rd EXCEPT !.reads = @ + 1, !.line = line]
         IN  IF ~monitor_running
             THEN /\ rd' = Finally([read EXCEPT !.handled = FALSE, !.category = "none",
                                                !.ended = "break"])
                  /\ procs' = ReadEndClosed(procs, rd.pid)
             ELSE IF category = "none"
             THEN /\ rd' = [read EXCEPT !.handled = TRUE, !.category = category]
                  /\ procs' = procs
             ELSE /\ rd' = [read EXCEPT !.handled = TRUE, !.category = category,
                                        !.matched = @ + 1, !.pc = "r_log"]
                  /\ procs' = procs
    /\ UNCHANGED <<capture_process, pusher_process, monitor_running, pc,
                   exc, lifecycle, starts, calls, stage, waited, stopTrace,
                   stopsDone, log, appVars, cfgVars, hreq, logger, retryVars, obsVars>>

\* self.logger.log("warning", ...) for the matched line: it raises (the
\* thread enters the except block), is suppressed, or writes the entry.
ReaderLogLine ==
    /\ pc \notin {"exited", "crashed"}
    /\ rd.pc = "r_log"
    /\ LET outcome == LogOutcome("warning", logger.level) IN
         IF outcome = "ValueError"
         THEN /\ rd' = [rd EXCEPT !.pc = "r_except"]
              /\ log' = log
         ELSE IF outcome = "suppressed"
         THEN /\ rd' = [rd EXCEPT !.pc = "r_reading"]
              /\ log' = log
         ELSE /\ rd' = [rd EXCEPT !.pc = "r_reading", !.warnings =
                          Append(@, WarningEntry(rd.category, rd.process, Strip(rd.line)))]
              /\ log' = log \o <<rd.category>>
    /\ UNCHANGED <<procs, capture_process, pusher_process, monitor_running, pc,
                   exc, lifecycle, starts, calls, stage, waited, stopTrace,
                   stopsDone, appVars, cfgVars, hreq, logger, retryVars, obsVars>>

\* except Exception: self.logger.log("error", ..., "stderr_monitor_error",
\* ...), then the finally block.
ReaderLogError ==
    /\ pc \notin {"exited", "crashed"}
    /\ rd.pc = "r_except"
    /\ rd' = Finally([rd EXCEPT !.ended = "except"])
    /\ log' = log \o <<"stderr_monitor_error">>
    /\ procs' = ReadEndClosed(procs, rd.pid)
    /\ UNCHANGED <<capture_process, pusher_process, monitor_running, pc,
                   exc, lifecycle, starts, calls, stage, waited, stopTrace,
                   stopsDone, appVars, cfgVars, hreq, logger, retryVars, obsVars>>

ReaderCalls == ReaderBegin \/ ReaderTakeLine \/ ReaderLogLine \/ ReaderLogError \/ ReaderEof

InitShutdown == Init /\ variant = "rtp" /\ ~twoStage

NextShutdown ==
    \/ AppStep
    \/ SingleStageStep
    \/ Signal
    \/ \E p \in Pids : ProcExit(p)
    \/ ReaderCalls

SpecShutdown == InitShutdown /\ [][NextShutdown]_vars

\* ============================================================ claims
HasLogged(evt) == \E i \in 1..Len(log) : log[i] = evt
InTrace(e) == \E i \in 1..Len(stopTrace) : stopTrace[i] = e

\* C1: when start() raises, no process launched by this start() call is
\* still running (an already-launched upstream stage has been torn down).
C1_NoProcessLeftWhenStartRaises ==
    pc = "s_raise" => \A p \in Pids : procs[p].by = starts => ~procs[p].alive

\* C2: every running process ever launched is still referenced by one of the
\* supervisor's current handles, so that a later stop() reaches it.
C2_NoOrphan ==
    \A p \in Pids : procs[p].alive => p \in {capture_process, pusher_process}

\* C3: start() is invoked only on an idle supervisor: never a second time
\* without a stop() of the previous attempt in between.
C3_StartOnlyWhenIdle ==
    pc = "s_begin" => lifecycle = "Idle"

\* C4: monitor() ends only by raising a stream drop, after the terminal stage
\* has exited, with that stage's exit code, whatever the code; it never
\* returns normally for an assigned terminal stage.
C4_MonitorAlwaysFails ==
    /\ pc \in {"m_except", "m_raise"} =>
          /\ pusher_process # 0
          /\ ~procs[pusher_process].alive
          /\ exc = [kind |-> "StreamDropError", code |-> procs[pusher_process].code]
    /\ pc = "m_ret" => pusher_process = 0

\* C4 witness: a clean zero exit of the terminal stage reported as a drop.
C4_Witness ==
    /\ pc = "m_raise"
    /\ exc = [kind |-> "StreamDropError", code |-> 0]
    /\ procs[pusher_process].code = 0

\* The terminal stage of a two-stage pipeline has exited with code 1.
DownstreamExitedOne ==
    /\ twoStage
    /\ pusher_process # 0
    /\ ~procs[pusher_process].alive
    /\ procs[pusher_process].code = 1

\* C5: in a two-stage pipeline whose downstream stage exited with code 1,
\* monitor() eventually raises a stream drop with exit code 1, and a stop()
\* called then eventually returns without error with no process running.
C5_DropThenCleanStop ==
    /\ (pc = "m_wait" /\ DownstreamExitedOne)
          ~> (pc = "m_raise" /\ exc = [kind |-> "StreamDropError", code |-> 1])
    /\ (pc = "st_begin" /\ DownstreamExitedOne)
          ~> (pc = "st_ret" /\ exc.kind = "none" /\ Running = {})

\* C5 witness: after the drop with code 1 was raised, stop() has returned
\* and neither stage runs.
C5_Witness ==
    /\ pc = "st_ret"
    /\ DownstreamExitedOne
    /\ capture_process # 0
    /\ HasLogged("monitor_error")
    /\ exc.kind = "none"
    /\ Running = {}

\* C6: whenever stop() ends, by returning or by raising, it has attempted
\* to stop every stage that was started, the upstream stage included.
C6_StopAttemptsEveryStage ==
    pc \in {"st_ret", "st_raise"} =>
        \A i \in 1..Len(StopOrder) :
            Handle(StopOrder[i]) # 0 => InTrace(<<StopOrder[i], "terminate", 0>>)

\* The controlling thread is inside a stop() call, or at its end.
InStopCall == pc \in {"st_begin", "st_check", "st_wait", "st_end", "st_ret", "st_raise"}

\* C7: a stop() with no process assigned, or after a completed stop(), does
\* not fail, and throughout it every stage is stopped, as the first stop()
\* left it.
C7_StopIdempotent ==
    (/\ InStopCall
     /\ (stopsDone >= 1 \/ (capture_process = 0 /\ pusher_process = 0)))
    => /\ pc # "st_raise"
       /\ exc.kind = "none"
       /\ \A i \in 1..Len(StopOrder) : ~Alive(Handle(StopOrder[i]))

\* C7 witness: a second stop() of a started pipeline has returned.
C7_Witness ==
    /\ pc = "st_ret"
    /\ stopsDone = 2
    /\ pusher_process # 0

\* C8: stop() handles the terminal stage completely before it touches the
\* upstream stage; for each stage the termination request comes first, the
\* wait lasts at most the grace period, and a kill follows only a wait of
\* the whole grace period; when stop() returns, the upstream stage has been
\* handled and does not run, also after the terminal stage had to be killed.
C8_ReverseOrderAndEscalation ==
    /\ waited <= GraceSeconds
    /\ pc \in {"st_check", "st_wait", "st_end", "st_ret"} => \A i \in 1..Len(stopTrace) :
          LET e == stopTrace[i] IN
          /\ e[2] = "terminate" => e[3] = 0
          /\ e[2] = "kill" =>
                (i > 1 /\ stopTrace[i - 1] = <<e[1], "terminate", 0>> /\ e[3] = GraceSeconds)
          /\ e[2] = "exited" =>
                (i > 1 /\ stopTrace[i - 1] = <<e[1], "terminate", 0>> /\ e[3] <= GraceSeconds)
          /\ e[1] = "pusher" => \A j \in 1..i : stopTrace[j][1] = "pusher"
          /\ (e[1] = "capture" /\ pusher_process # 0) =>
                \E j \in 1..(i - 1) :
                    stopTrace[j][1] = "pusher" /\ stopTrace[j][2] \in {"kill", "exited"}
    /\ pc = "st_ret" =>
          \A n \in {"pusher", "capture"} :
              Handle(n) # 0 => (InTrace(<<n, "terminate", 0>>) /\ ~procs[Handle(n)].alive)

\* C8 witness: stop() returned after killing a terminal stage that ignored
\* the request, and the upstream stage was terminated after it.
C8_Witness ==
    /\ pc = "st_ret"
    /\ InTrace(<<"pusher", "kill", GraceSeconds>>)
    /\ InTrace(<<"capture", "terminate", 0>>)
    /\ stopTrace[Len(stopTrace)][1] = "capture"

\* C9: a launch failure or stream drop of the task never ends run(); the
\* failure is logged (task_failed is the last event while run() sleeps) and,
\* unless a signal arrives or the model's cap on starts is reached, another
\* task_start follows.
C9_FailureLeadsToRetry ==
    /\ [](pc # "crashed")
    /\ [](pc = "wd_sleep" => log[Len(log)] = "task_failed")
    /\ (pc = "wd_except" /\ exc.kind \in {"LaunchError", "StreamDropError"})
          ~> (signalled \/ starts >= MaxStarts
              \/ (pc = "task" /\ log[Len(log)] = "task_start"))

\* C9 witness: a task_start that follows a logged task failure.
C9_Witness ==
    /\ pc = "task"
    /\ attempt >= 1
    /\ HasLogged("task_failed")
    /\ log[Len(log)] = "task_start"

\* The schedule entry get_next_delay is specified to use at attempt index i.
EntryAt(S, i) == S[(IF i < Len(S) - 1 THEN i ELSE Len(S) - 1) + 1]

\* C10 (as claimed): the delay lies in [max(0.1, S[k]*0.9), S[k]*1.1] with
\* k = min(i, |S|-1), for every schedule of positive values.
C10_DelayWithinJitterBand ==
    pc = "delay_done" =>
        /\ delay >= Max(MinDelayMicros, EntryAt(backoff_schedule, attempt) * 900)
        /\ delay <= EntryAt(backoff_schedule, attempt) * 1100

\* C10 (amended): the delay lies in [max(0.1, S[k]*0.9), max(0.1, S[k]*1.1)]
\* with k = min(i, |S|-1): the 0.1 s floor applies to the upper end too.
C10_DelayWithinClampedBand ==
    pc = "delay_done" =>
        /\ delay >= Max(MinDelayMicros, EntryAt(backoff_schedule, attempt) * 900)
        /\ delay <= Max(MinDelayMicros, EntryAt(backoff_schedule, attempt) * 1100)

\* C10 witness: an attempt index past the end of a two-entry schedule got
\* the last entry with the largest jitter.
C10_Witness ==
    /\ pc = "delay_done"
    /\ Len(backoff_schedule) = 2
    /\ backoff_schedule[1] # backoff_schedule[2]
    /\ attempt > Len(backoff_schedule)
    /\ delay = backoff_schedule[2] * 1100

\* How often evt was logged.
Count(evt) == Cardinality({i \in 1..Len(log) : log[i] = evt})
\* Calls of the scripted task that returned, and that raised.
Successes == {i \in 1..Len(outcomes) : outcomes[i] = "returned"}
Failures == {i \in 1..Len(outcomes) : outcomes[i] # "returned"}
\* A script that fails twice and then returns.
FailsTwiceThenReturns ==
    /\ Len(outcomes) = 3
    /\ Failures = {1, 2}
\* Failures of the scripted task since its last normal return.
FailuresSinceSuccess == Cardinality({i \in Failures : \A k \in Successes : k < i})
\* The watchdog has dealt with the outcome of every call made so far.
OutcomesHandled == pc \in {"wd_start", "task", "wd_sleep"}

\* C11: once the watchdog has handled the outcome of each call of the task,
\* it has logged one task_failed per failed call and one task_success per
\* call that returned, and the attempt counter equals the number of failures
\* since the last normal return (0 right after one); so a task that fails
\* exactly twice and then succeeds leaves two task_failed, one task_success
\* and attempt 0 after the third call.
C11_AttemptCountsFailures ==
    /\ OutcomesHandled =>
         /\ Count("task_failed") = Cardinality(Failures)
         /\ Count("task_success") = Cardinality(Successes)
         /\ attempt = FailuresSinceSuccess
    /\ (OutcomesHandled /\ FailsTwiceThenReturns) =>
         /\ Count("task_failed") = 2
         /\ Count("task_success") = 1
         /\ attempt = 0

\* The task failed twice, then returned, and the watchdog logged the success.
C11_Witness ==
    /\ FailsTwiceThenReturns
    /\ pc = "wd_start"
    /\ wd_ctx.evt = "task_success"
    /\ attempt = 0

\* C12: a failed iteration of RetryWatchdog.run goes: task_start logged with
\* the current attempt a; task() called; the delay computed from the schedule
\* entry at min(a, len - 1); task_failed logged with attempt a, the failure
\* and that delay, right after the task_start; the attempt counted to a + 1;
\* a sleep of exactly the logged delay; then the next task_start, with a + 1.
C12_FailedIterationOrder ==
    /\ pc \in {"task", "wd_except"} =>
         /\ wd_ctx.evt = "task_start"
         /\ wd_ctx.attempt = attempt
         /\ log[Len(log)] = "task_start"
    /\ pc = "task" => wd_ctx.attempt = FailuresSinceSuccess
    /\ pc = "wd_except" => wd_ctx.attempt = FailuresSinceSuccess - 1
    /\ pc = "wd_sleep" =>
         /\ wd_ctx.evt = "task_failed"
         /\ wd_ctx.attempt = FailuresSinceSuccess - 1
         /\ wd_ctx.error = outcomes[Len(outcomes)]
         /\ \E j \in Jitters :
              wd_ctx.delay = Max(MinDelayMicros,
                                 EntryAt(backoff_schedule, wd_ctx.attempt) * (1000 + j))
         /\ log[Len(log) - 1] = "task_start"
         /\ log[Len(log)] = "task_failed"
         /\ attempt = wd_ctx.attempt + 1
         /\ delay = wd_ctx.delay
         /\ wd_ctx.slept = 0
    /\ (pc = "wd_start" /\ wd_ctx.evt = "task_failed") =>
         /\ wd_ctx.slept = wd_ctx.delay
         /\ attempt = wd_ctx.attempt + 1

\* The second failure in a row was logged with attempt 1 and slept through.
C12_Witness ==
    /\ pc = "wd_start"
    /\ wd_ctx.evt = "task_failed"
    /\ wd_ctx.attempt = 1
    /\ wd_ctx.slept = wd_ctx.delay
    /\ wd_ctx.slept >= MinDelayMicros

\* The overall status by precedence of the two fields.
Precedence(present, rtmp) ==
    CASE ~present /\ rtmp = "down" -> "down"
      [] present /\ rtmp = "down" -> "degraded"
      [] ~present /\ rtmp = "up" -> "degraded"
      [] present /\ rtmp = "up" -> "ok"

Responses == {hreq.responses[i] : i \in 1..Len(hreq.responses)}

\* C13: every snapshot to_dict returns, with no update running beside it,
\* carries the two fields as they were when it was called, and the status
\* that follows from them by precedence: (false, down) -> down,
\* (true, down) -> degraded, (false, up) -> degraded, (true, up) -> ok.
C13_StatusByPrecedence ==
    \A r \in Responses :
      /\ r.existed = {<<r.present, r.rtmp>>}
      /\ (~r.present /\ r.rtmp = "down") => r.status = "down"
      /\ (r.present /\ r.rtmp = "down") => r.status = "degraded"
      /\ (~r.present /\ r.rtmp = "up") => r.status = "degraded"
      /\ (r.present /\ r.rtmp = "up") => r.status = "ok"

\* Snapshots of two of the four combinations were returned.
C13_Witness ==
    /\ hreq.pc = "h_done"
    /\ \E r \in Responses : ~r.present /\ r.rtmp = "up" /\ r.status = "degraded"
    /\ \E r \in Responses : ~r.present /\ r.rtmp = "down" /\ r.status = "down"

\* C14: a snapshot returned by to_dict while updates run beside it is never
\* torn: its status is the precedence of its own two fields, and these two
\* together are a state of the fields that existed during the call.
C14_NoTornSnapshot ==
    \A r \in Responses :
      /\ r.status = Precedence(r.present, r.rtmp)
      /\ <<r.present, r.rtmp>> \in r.existed

\* The order of the four levels.
Rank(level) ==
    CASE level = "debug" -> 0
      [] level = "info" -> 1
      [] level = "service" -> 2
      [] level = "error" -> 3
Ordered == {"debug", "info", "service", "error"}

\* The latest call of log() left the files and the mirror as they were.
NothingWritten ==
    /\ logger.active = logger.last.active
    /\ logger.backups = logger.last.backups
    /\ logger.mirror = logger.last.mirror

\* C18: with debug < info < service < error, a call of log() whose level is
\* strictly below the configured minimum does no I/O at all - no size check,
\* no rotation, no write, no mirror output - and leaves the active file and
\* the backups unchanged; a call at or above the minimum is not suppressed.
C18_SuppressedBeforeAnyIO ==
    (logger.last.level \in Ordered /\ logger.level \in Ordered) =>
      IF Rank(logger.last.level) < Rank(logger.level)
      THEN /\ logger.last.outcome = "suppressed"
           /\ logger.last.ops = <<>>
           /\ NothingWritten
      ELSE /\ logger.last.outcome = "written"
           /\ logger.last.ops # <<>>

\* An info entry was suppressed by minimum service, with a file that would
\* otherwise have been rotated.
C18_Witness ==
    /\ logger.level = "service"
    /\ logger.last.level = "info"
    /\ logger.last.outcome = "suppressed"
    /\ SizeOf(logger.active) >= logger.max_bytes
    /\ logger.active # <<>>

\* C19: for every level of {debug, info, service, error, warning} and every
\* configured minimum, a call of log() either suppresses the entry or writes
\* it exactly once; it never fails because of the level.
C19_EveryLevelAccepted ==
    logger.last.level \in CallLevels =>
      \/ logger.last.outcome = "suppressed" /\ NothingWritten
      \/ /\ logger.last.outcome = "written"
         /\ Cardinality({i \in 1..Len(logger.active) : logger.active[i].id = logger.n}) = 1
         /\ Cardinality({i \in 1..Len(logger.mirror) : logger.mirror[i].id = logger.n}) = 1

\* The latest call of log() got past the level check.
Written == logger.last.outcome = "written"
Rotations == Cardinality({i \in 1..Len(logger.last.ops) : logger.last.ops[i] = "rotate"})

C17_OneReaderPerProcess ==
    lifecycle = "Running" =>
      \A p \in Pids : (procs[p].alive /\ procs[p].stderr = "pipe") => procs[p].readers = 1

\* The line the reader handled last, as it is matched; which keyword sets it
\* matches.
Handled == Lower(Strip(rd.line))
MatchesDropped == Contains(Handled, KwDropped) \/ Contains(Handled, KwDrop)
MatchesCorruption == Contains(Handled, KwCorrupt) \/ Contains(Handled, KwError)
MatchesBuffer ==
    Contains(Handled, KwBuffer)
    /\ (Contains(Handled, KwOverflow) \/ Contains(Handled, KwFull))
MatchesNetwork == Contains(Handled, KwNetwork) \/ Contains(Handled, KwConnection)

\* C15: a non-empty line is classified, whatever its case, into the first
\* category it matches in the order dropped-frame > stream-corruption >
\* buffer-issue > network-issue, and into none when it matches no keyword
\* set; "Warning: 12 frames dropped" is dropped-frame and "Connection reset
\* by peer" is network-issue.
C15_ClassifiedByPriority ==
    (rd.handled /\ Handled # <<>>) =>
      /\ rd.category = "frames_dropped" <=> MatchesDropped
      /\ rd.category = "stream_error" <=> (~MatchesDropped /\ MatchesCorruption)
      /\ rd.category = "buffer_issue" <=>
           (~MatchesDropped /\ ~MatchesCorruption /\ MatchesBuffer)
      /\ rd.category = "network_issue" <=>
           (~MatchesDropped /\ ~MatchesCorruption /\ ~MatchesBuffer /\ MatchesNetwork)
      /\ rd.category = "none" <=>
           ~(MatchesDropped \/ MatchesCorruption \/ MatchesBuffer \/ MatchesNetwork)
      /\ rd.line = DroppedLine \o <<"\n">> => rd.category = "frames_dropped"
      /\ rd.line = PeerLine \o <<"\n">> => rd.category = "network_issue"
      /\ rd.line = <<"o", "k", "\n">> => rd.category = "none"

\* "Connection reset by peer" was read and classified.
C15_Witness ==
    /\ rd.handled
    /\ rd.line = PeerLine \o <<"\n">>
    /\ rd.category = "network_issue"

\* C16: for every line the reader read that matches a category, exactly one
\* warning entry with the label of the process and the line cut to at most
\* 500 characters is written; a line that matches none adds no warning; and
\* the reader keeps reading after a line: only the end of the stream or the
\* cleared flag ends its loop.
C16_OneWarningPerMatchedLine ==
    rd.handled =>
      /\ Len(rd.warnings) = rd.matched
      /\ rd.category # "none" =>
           /\ rd.warnings # <<>>
           /\ LET w == rd.warnings[Len(rd.warnings)]
              IN  /\ w.level = "warning"
                  /\ w.event = rd.category
                  /\ w.process = rd.process
                  /\ Len(w.message) <= MessageLimit
                  /\ w.message = SubSeq(Strip(rd.line), 1, Len(w.message))
                  /\ Len(w.message) = MessageLimit \/ w.message = Strip(rd.line)
      /\ rd.pc = "r_closed" => rd.ended \in {"eof", "break"}

\* The numbered backup files that exist.
Backups == {k \in BackupIdx : logger.backups[k].exists}

\* C21: for every backup count N, 0 and 1 included, at most N backup files
\* exist after any number of rotations; after N + 1 rotations exactly N
\* exist and the content rotated first is in none of them; and backup .k
\* holds the content rotated k rotations ago.
C21_AtMostNBackups ==
    LET N == logger.backup_count
        R == logger.rotated
    IN  /\ Cardinality(Backups) <= N
        /\ Len(R) >= N + 1 =>
             /\ Cardinality(Backups) = N
             /\ R[1] # <<>> => \A k \in Backups : logger.backups[k].data # R[1]
        /\ \A k \in Backups :
             /\ k <= Len(R)
             /\ logger.backups[k].data = R[Len(R) - k + 1]

\* The stages each start() launched: p was launched by the n-th start().
Launched(n, role) == {p \in Pids : procs[p].by = n /\ procs[p].role = role}
\* The starts that launched every stage of their pipeline.
CompleteStarts == {n \in 1..starts : Launched(n, "pusher") # {}}
\* Nobody who could still read holds the read end of p's stdout: p's next
\* write to it fails with a broken pipe instead of blocking.
BrokenPipe(p) == \A h \in procs[p].stdout_readers : h # 0 /\ ~procs[h].alive

\* C26: once a two-stage start() has launched both stages, the supervisor
\* holds no reference to the upstream stage's stdout: the only holder is the
\* downstream stage, so whenever the downstream stage is dead the upstream
\* stage's write meets a broken pipe and cannot block on that stream.
C26_NoReferenceToIntermediateStream ==
    twoStage =>
      \A n \in CompleteStarts : \A c \in Launched(n, "capture") :
        /\ 0 \notin procs[c].stdout_readers
        /\ procs[c].stdout_readers = Launched(n, "pusher")
        /\ (\A q \in Launched(n, "pusher") : ~procs[q].alive) => BrokenPipe(c)

\* The downstream stage has died while the upstream stage is still running.
C26_Witness ==
    /\ twoStage
    /\ \E n \in CompleteStarts : \E c \in Launched(n, "capture") :
         /\ procs[c].alive
         /\ procs[c].stdout_readers # {}
         /\ BrokenPipe(c)

\* The events that announce the launch of the terminal stage.
TerminalStartEvents == {"pusher_start", "stream_start"}

\* C27: start() launches the upstream stage before the downstream one, logs
\* an event before each launch, and logs publish_ok, carrying the process
\* identifiers of the stages, only after every stage was launched: never in
\* an attempt in which a launch failed.
C27_PublishOkAfterAllLaunches ==
    /\ Count("publish_ok") = Cardinality(CompleteStarts)
    /\ Count("capture_start") >= Cardinality({p \in Pids : procs[p].role = "capture"})
    /\ Count("pusher_start") + Count("stream_start")
         >= Cardinality({p \in Pids : procs[p].role = "pusher"})
    /\ \A i \in 1..Len(log) :
         /\ log[i] = "publish_ok" => i > 1 /\ log[i - 1] \in TerminalStartEvents
         /\ log[i] = "pusher_start" => i > 1 /\ log[i - 1] = "capture_start"
    /\ \A n \in 1..starts : \A c \in Launched(n, "capture") :
         \A q \in Launched(n, "pusher") : c < q
    /\ pc = "s_ret" =>
         /\ evt_ctx.evt = "publish_ok"
         /\ evt_ctx.pid_pusher = pusher_process
         /\ Launched(starts, "pusher") = {pusher_process}
         /\ twoStage => /\ evt_ctx.pid_capture = capture_process
                         /\ Launched(starts, "capture") = {capture_process}
    /\ pc \in {"s_except", "s_raise"} =>
         /\ starts \notin CompleteStarts
         /\ evt_ctx.evt # "publish_ok"

\* A start() whose second launch failed after its first one succeeded, and
\* before it a start() that logged publish_ok.
C27_Witness ==
    /\ pc = "s_except"
    /\ twoStage
    /\ Launched(starts, "capture") # {}
    /\ Count("publish_ok") = 1

\* C28: when the terminal stage has exited, monitor() reads at most 2000
\* bytes of what is left of its diagnostic output and logs a drop event that
\* carries the exit code and the excerpt, in both supervisors.
C28_DropCarriesCodeAndExcerpt ==
    evt_ctx.evt = DropEvent =>
      /\ evt_ctx.returncode = procs[pusher_process].code
      /\ evt_ctx.stderr >= 0
      /\ evt_ctx.read >= 0
      /\ evt_ctx.read <= ExcerptLimit

\* A process that can write no more diagnostic output: its stderr pipe is
\* full.
Blocked(p) == procs[p].alive /\ procs[p].stderr = "pipe" /\ procs[p].pending = PipeCapacity

\* C25: every diagnostic pipe start() opened, of the upstream and of the
\* terminal stage, in both supervisors, is being drained, so a process that
\* filled the pipe's buffer is not left blocked on it.
C25_EveryDiagnosticPipeDrained ==
    \A p \in Pids : Blocked(p) => procs[p].readers > 0

\* C29: the reader checks the shared flag before it handles a line, so a
\* line read after the flag was seen false is neither classified nor logged;
\* every way out of the reader (end of stream, cancellation, a read error, an
\* error while logging) closes the stream, after which the thread does
\* nothing more; and a reader still reading when stop() has returned
\* eventually terminates.
C29_ReaderCancelsAndCloses ==
    /\ [](rd.ended = "break" => ~rd.handled /\ rd.category = "none")
    /\ [](rd.ended # "no" => rd.pc = "r_closed")
    /\ [](rd.pc = "r_closed" => rd.stream = "closed" /\ rd.ended # "no")
    /\ [][rd.pc = "r_closed" => rd' = rd]_vars
    /\ [][rd'.ended = "break" /\ rd.ended = "no" =>
           ~monitor_running /\ Len(log') = Len(log)]_vars
    /\ (rd.pc = "r_reading" /\ pc = "st_ret") ~> (rd.pc = "r_closed")

\* stop() cleared the flag and the reader, handed one more line, broke out
\* of its loop and closed the stream.
C29_Witness ==
    /\ rd.ended = "break"
    /\ rd.stream = "closed"
    /\ rd.line # <<>>
    /\ lifecycle \in {"Stopping", "Idle"}

\* C30: a failure inside the reader (a read error, an error raised while a
\* line is classified or logged) is logged and ends that thread only: the
\* process it watched keeps its stderr pipe and is not terminated by it.
C30_ReaderFailureContained ==
    rd.ended \in {"except", "read_error"} =>
      /\ log # <<>> /\ Count("stderr_monitor_error") = 1
      /\ procs[rd.pid].alive => procs[rd.pid].stderr = "pipe"
      /\ procs[rd.pid].code # SigPipeCode

\* How often entry e occurs in a sequence of entries.
Occurrences(q, e) == Cardinality({i \in 1..Len(q) : q[i] = e})
\* The calls of log() that passed the level filter and are over.
Finished == {logger.returned[i] : i \in 1..Len(logger.returned)}
              \cup {logger.raised[i] : i \in 1..Len(logger.raised)}

\* C22: every call of log() that passes the level filter, by the
\* controlling thread or by the reader thread, with or without a rotation by
\* either, has its entry written once to the log file and once to stdout;
\* none is lost, duplicated or written through a closed file handle.
C22_EveryEntryWrittenOnce ==
    /\ logger.raised = <<>>
    /\ \A e \in Finished :
         /\ Occurrences(logger.sink, e) = 1
         /\ Occurrences(logger.mirror, e) = 1

\* C23: a failed write to the log file is fatal. It leaves the log call and
\* ends the process; raised inside start() or monitor(), it is never turned
\* into a pipeline failure that the watchdog logs and retries after a sleep.
C23_SinkFailureIsFatal ==
    logger.failures > 0 =>
      /\ pc # "wd_sleep"
      /\ wd_ctx.evt # "task_failed"

\* The position of the last occurrence of evt in the log, 0 if there is none.
LastIndex(evt) ==
    IF \E i \in 1..Len(log) : log[i] = evt
    THEN CHOOSE i \in 1..Len(log) : log[i] = evt /\ \A j \in (i + 1)..Len(log) : log[j] # evt
    ELSE 0

\* C24: a termination signal, wherever it interrupts the controlling thread,
\* leads through stop of the pipeline, stop of the health server and close
\* of the log file, in this order, to the exit of the process, and the exit
\* code is 0.
C24_OrderlyShutdownExitsZero ==
    pc = "exited" =>
      /\ LastIndex("shutdown_signal") > 0
      /\ LastIndex("shutdown_signal") < LastIndex("app_shutdown")
      /\ LastIndex("app_shutdown") < LastIndex("stopped")
      /\ LastIndex("stopped") < LastIndex("http_stopped")
      /\ LastIndex("http_stopped") < LastIndex("logger_closed")
      /\ LastIndex("logger_closed") = Len(log)
      /\ exit_code = 0

\* The overall status a health query would be answered with now.
StatusNow == OverallStatus(camera_present, publish_status)

\* The watchdog has caught a failure of the task and is logging it or
\* sleeping before the next attempt.
FailureHandled ==
    \/ pc = "wd_except" /\ exc.kind \in {"LaunchError", "StreamDropError"}
    \/ pc = "wd_sleep"

\* C31: whenever the task has failed, by a launch failure of start() or a
\* stream drop of monitor(), and the watchdog is logging the failure or
\* sleeping, the publish status is down and the overall status is degraded
\* or down, never ok.
C31_FailureVisibleOnHealth ==
    FailureHandled => publish_status = "down" /\ StatusNow # "ok"

\* C32: monitor() never returns normally, whatever the state of the
\* supervisor, also with no terminal stage assigned; so the watchdog never
\* sees the task return and never logs task_success.
C32_MonitorNeverReturns ==
    /\ pc \notin {"m_ret", "wd_ok"}
    /\ Count("task_success") = 0

\* The process has ended.
Ended == pc \in {"exited", "crashed"}

\* C33: with the watchdog enabled or disabled, the process ends only by a
\* termination signal or a failed write to the log file, never by a launch
\* failure or a stream drop, and never while a stage it launched still runs.
C33_EndsOnlyBySignalOrSinkFailure ==
    Ended =>
      /\ signalled \/ logger.failures > 0
      /\ Running = {}

\* C34: the health state starts as (camera_present false, publish down),
\* overall status down; it stays so until the first attempt begins, and no
\* operation sets camera_present back to false: from the first attempt on
\* the overall status is ok or degraded, never down.
C34_DownOnlyBeforeFirstAttempt ==
    /\ [](starts = 0 /\ pc \in {"run", "wd_start", "task"} =>
            ~camera_present /\ publish_status = "down" /\ StatusNow = "down")
    /\ [](starts >= 1 => camera_present)
    /\ [](camera_present => StatusNow \in {"ok", "degraded"})
    /\ [][camera_present => camera_present']_vars

\* After a stream drop in a later attempt: publish down, the camera still
\* reported present, overall status degraded.
C34_Witness ==
    /\ starts >= 1
    /\ pc = "wd_sleep"
    /\ camera_present
    /\ publish_status = "down"
    /\ StatusNow = "degraded"

\* shutdown() has closed the log file.
LogClosed == Count("logger_closed") > 0

\* The reader thread is at a log call: about to log the line it matched, or
\* in its except block about to log stderr_monitor_error.
ReaderAtLogCall == rd.pc \in {"r_log", "r_except"}

\* C35: when shutdown closes the log file, every stderr reader thread has
\* terminated or can no longer reach a log call, so that none writes to the
\* closed file handle.
C35_NoReaderAtLogCallWhenClosed ==
    LogClosed => ~ReaderAtLogCall
====
